---- MODULE Spec2Model ----
(***************************************************************************)
(* Grid runtime of the survey forms (frontend/script.js): the per-table    *)
(* state built by table_init, the event handlers, row validation,          *)
(* serialization, the save gateway and the dynamic row provisioner.        *)
(*                                                                         *)
(* Texts are sequences of one-character strings, so that trimming,         *)
(* filtering and parsing are computed character by character.  Numbers     *)
(* are integers counted in units of 10^-ScaleDigits.                       *)
(***************************************************************************)
EXTENDS Integers, Sequences, FiniteSets, TLC

(***************************************************************************)
(* Bounds of the model                                                     *)
(***************************************************************************)
\* decimal digits kept by the fixed-point representation of a JS number
ScaleDigits == 2
\* the clock advances in steps of TickMs and stops at page load + MaxElapsed
TickMs == 1500
MaxElapsed == 3000
\* add_row calls made on one page
MaxAddCalls == 2

(***************************************************************************)
(* Characters and texts                                                    *)
(***************************************************************************)
Digits == {"0", "1", "2", "3", "4", "5", "6", "7", "8", "9"}

DigitVal(c) ==
    CASE c = "0" -> 0 [] c = "1" -> 1 [] c = "2" -> 2 [] c = "3" -> 3
      [] c = "4" -> 4 [] c = "5" -> 5 [] c = "6" -> 6 [] c = "7" -> 7
      [] c = "8" -> 8 [] c = "9" -> 9

\* \s of the regular expressions, over the characters the model types
IsSpace(c) == c = " "

\* String.prototype.trim
RECURSIVE TrimLeft(_)
TrimLeft(s) ==
    IF Len(s) > 0 /\ IsSpace(s[1]) THEN TrimLeft(Tail(s)) ELSE s

RECURSIVE TrimRight(_)
TrimRight(s) ==
    IF Len(s) > 0 /\ IsSpace(s[Len(s)])
    THEN TrimRight(SubSeq(s, 1, Len(s) - 1))
    ELSE s

Trim(s) == TrimRight(TrimLeft(s))

\* F applied to v, with v evaluated once
With(v, F(_)) == CHOOSE r \in {F(x) : x \in {v}} : TRUE

\* String.prototype.includes for a single character
Includes(s, c) == \E i \in 1..Len(s) : s[i] = c

\* String.prototype.indexOf for a single character, 1-based, 0 when absent
IndexOf(s, c) ==
    IF Includes(s, c)
    THEN CHOOSE i \in 1..Len(s) : s[i] = c /\ \A j \in 1..(i - 1) : s[j] # c
    ELSE 0

\* String.prototype.replace(a, b) with a string pattern: the first match only
ReplaceFirst(s, a, b) ==
    LET i == IndexOf(s, a)
    IN  IF i = 0 THEN s ELSE [s EXCEPT ![i] = b]

\* the longest prefix of decimal digits
RECURSIVE DigitPrefix(_)
DigitPrefix(s) ==
    IF Len(s) > 0 /\ s[1] \in Digits
    THEN <<s[1]>> \o DigitPrefix(Tail(s))
    ELSE <<>>

\* the value of a sequence of decimal digits
RECURSIVE DigitsValue(_)
DigitsValue(ds) ==
    IF Len(ds) = 0 THEN 0
    ELSE DigitsValue(SubSeq(ds, 1, Len(ds) - 1)) * 10 + DigitVal(ds[Len(ds)])

RECURSIVE Pow10(_)
Pow10(n) == IF n = 0 THEN 1 ELSE 10 * Pow10(n - 1)

Scale == Pow10(ScaleDigits)

(***************************************************************************)
(* Numbers: null or a fixed-point value                                    *)
(***************************************************************************)
Null == [null |-> TRUE, v |-> 0]
Num(n) == [null |-> FALSE, v |-> n]

\* the fraction digits of a literal as units of 10^-ScaleDigits
FractionValue(ds) ==
    LET kept == SubSeq(ds, 1, IF Len(ds) < ScaleDigits THEN Len(ds) ELSE ScaleDigits)
    IN  DigitsValue(kept) * Pow10(ScaleDigits - Len(kept))

\* parseFloat: an optional sign, digits, an optional period and digits; the
\* longest such prefix that holds a digit, NaN (null) when there is none
ParseFloat(raw) ==
    LET neg  == Len(raw) > 0 /\ raw[1] = "-"
        body == IF neg THEN Tail(raw) ELSE raw
        ip   == DigitPrefix(body)
        rest == SubSeq(body, Len(ip) + 1, Len(body))
        fp   == IF Len(rest) > 0 /\ rest[1] = "." THEN DigitPrefix(Tail(rest)) ELSE <<>>
        mag  == DigitsValue(ip) * Scale + FractionValue(fp)
    IN  IF Len(ip) = 0 /\ Len(fp) = 0 THEN Null
        ELSE Num(IF neg THEN 0 - mag ELSE mag)

\* number_format_parse: thousands spaces and the number of decimals of a mask
number_format_parse(format) ==
    LET after(sep) ==
            LET i    == IndexOf(format, sep)
                tail == SubSeq(format, i + 1, Len(format))
                j    == IndexOf(tail, sep)
            IN  IF j = 0 THEN tail ELSE SubSeq(tail, 1, j - 1)
        decimal_part ==
            IF Includes(format, ".") THEN after(".")
            ELSE IF Includes(format, ",") THEN after(",")
            ELSE <<>>
    IN  [has_spaces |-> Includes(format, " "), decimals |-> Len(decimal_part)]

\* number_value_parse: no whitespace, the first comma read as the decimal point
number_value_parse(value) ==
    With(ReplaceFirst(SelectSeq(value, LAMBDA c : ~IsSpace(c)), ",", "."),
         LAMBDA raw : IF raw = <<>> \/ raw = <<"-">> \/ raw = <<".">> THEN Null
                      ELSE ParseFloat(raw))

\* string_is_blank: nothing but whitespace, commas, periods and minus signs
string_is_blank(value) ==
    SelectSeq(value, LAMBDA c : ~(IsSpace(c) \/ c \in {",", ".", "-"})) = <<>>

\* the decimal digits of a natural number
DigitChar(n) ==
    CASE n = 0 -> "0" [] n = 1 -> "1" [] n = 2 -> "2" [] n = 3 -> "3" [] n = 4 -> "4"
      [] n = 5 -> "5" [] n = 6 -> "6" [] n = 7 -> "7" [] n = 8 -> "8" [] n = 9 -> "9"

RECURSIVE NatToText(_)
NatToText(n) ==
    IF n < 10 THEN <<DigitChar(n)>>
    ELSE NatToText(n \div 10) \o <<DigitChar(n % 10)>>

\* the last n digits of a natural number, zero padded
RECURSIVE FractionText(_, _)
FractionText(m, n) ==
    IF n = 0 THEN <<>>
    ELSE FractionText(m \div 10, n - 1) \o <<DigitChar(m % 10)>>

\* Math.round(value).toString(): half rounds up, and -0 prints as 0
RoundToText(v) ==
    LET n == (2 * v + Scale) \div (2 * Scale)
    IN  IF n < 0 THEN <<"-">> \o NatToText(0 - n) ELSE NatToText(n)

\* value.toFixed(decimals): the magnitude rounded half up to the decimals, the
\* sign of a negative value kept also when the digits are all zero
ToFixedText(v, decimals) ==
    LET mag == IF v < 0 THEN 0 - v ELSE v
        n   == IF decimals >= ScaleDigits
               THEN mag * Pow10(decimals - ScaleDigits)
               ELSE (2 * mag + Pow10(ScaleDigits - decimals))
                        \div (2 * Pow10(ScaleDigits - decimals))
    IN  (IF v < 0 THEN <<"-">> ELSE <<>>)
        \o NatToText(n \div Pow10(decimals)) \o <<".">>
        \o FractionText(n % Pow10(decimals), decimals)

\* digits grouped in threes from the right, the groups joined by spaces
RECURSIVE GroupThousands(_)
GroupThousands(ds) ==
    IF Len(ds) <= 3 THEN ds
    ELSE GroupThousands(SubSeq(ds, 1, Len(ds) - 3)) \o <<" ">>
         \o SubSeq(ds, Len(ds) - 2, Len(ds))

\* number_format_value
number_format_value(v, fmt) ==
    LET r0  == IF fmt.decimals = 0 THEN RoundToText(v) ELSE ToFixedText(v, fmt.decimals)
        r1  == ReplaceFirst(r0, ".", ",")
        ci  == IndexOf(r1, ",")
        int_part == IF ci = 0 THEN r1 ELSE SubSeq(r1, 1, ci - 1)
        dec_part == IF ci = 0 THEN <<>> ELSE SubSeq(r1, ci + 1, Len(r1))
        is_negative == Len(int_part) > 0 /\ int_part[1] = "-"
        abs_int == IF is_negative THEN Tail(int_part) ELSE int_part
    IN  IF fmt.has_spaces
        THEN (IF is_negative THEN <<"-">> ELSE <<>>) \o GroupThousands(abs_int)
             \o (IF dec_part # <<>> THEN <<",">> \o dec_part ELSE <<>>)
        ELSE r1

(***************************************************************************)
(* State                                                                   *)
(***************************************************************************)
VARIABLES
    tableType,      \* state.type
    is_dynamic,     \* state.is_dynamic
    is_unique,      \* state.is_unique
    columns,        \* the columns of the table: name, kind, mask and bounds of their inputs
    dom,            \* the [data-cell] elements of the table in document order
    row_counter,    \* state.row_counter
    pending_save,   \* state.pending_save
    last_save_time, \* state.last_save_time
    now,            \* Date.now()
    posts,          \* save POSTs awaiting their response
    fetches,        \* row fragment GETs awaiting their response
    loader,         \* dynamic_table_load_existing: records left to load and the awaited call
    selector,       \* the row selector: its text, option list and highlighted option
    toast,          \* the toast shown by the last handler
    ev,             \* the last handler that ran, with what it saw and decided
    hist,           \* what the behaviour has done so far
    server          \* the server: what it stores and what its last handler answered

vars == <<tableType, is_dynamic, is_unique, columns, dom, row_counter, pending_save,
          last_save_time, now, posts, fetches, loader, selector, toast, ev, hist,
          server>>

\* the server as a page's handlers see it: nothing of it is in the model
\*   store     the persisted blobs, by survey and subtable
\*   requests  the requests that have reached it and are not yet handled
\*   sent      the number of requests made so far
\*   table     the Table Description its last handler resolved
\*   status    the status of the last response, log the level of its last log line
\*   meta      the metadata of the subtable that pages are requested for
\*   session   the role of the user the session holds ("": no user)
NoServer == [store |-> <<>>, requests |-> <<>>, sent |-> 0, table |-> <<>>,
             status |-> 0, log |-> "none", meta |-> <<>>, session |-> ""]

(***************************************************************************)
(* Cells and their inputs                                                  *)
(*                                                                         *)
(* A cell holds one input of the kind of its column:                       *)
(*   number  .number-input                  value                          *)
(*   string  .string-input                  value                          *)
(*   enum    [data-enum-input] + hidden     value (visible text), hidden   *)
(*   multi   [data-multi-exclusive-value]   hidden; value holds the values *)
(*           and its checkboxes             of the checked boxes, in       *)
(*                                          document order                 *)
(* err is the input's data-error-type ("none" when it has no error).       *)
(***************************************************************************)
Cell(idx, code, col, value, readonly, required) ==
    [row_index |-> idx, row_code |-> code, col |-> col, value |-> value,
     hidden |-> <<>>, err |-> "none", readonly |-> readonly, required |-> required]

KindOf(d, k) == columns[d[k].col].kind

\* input_show_error
input_show_error(cell, type) == [cell EXCEPT !.err = type]

\* input_clear_error
input_clear_error(cell) == [cell EXCEPT !.err = "none"]

\* row_cells_get: the cells of a row index, as positions in the document
row_cells_get(d, rowIndex) == {k \in DOMAIN d : d[k].row_index = rowIndex}

\* all_row_indices_get; the callers walk the indices in ascending order
all_row_indices_get(d) == {d[k].row_index : k \in DOMAIN d}

\* row_cells_has_data without trimming what the inputs hold
row_cells_has_data_untrimmed(d, cells) ==
    \E k \in cells :
        \/ KindOf(d, k) = "number" /\ ~d[k].readonly /\ d[k].value # <<>>
        \/ KindOf(d, k) = "string" /\ ~d[k].readonly /\ d[k].value # <<>>
        \/ KindOf(d, k) = "enum" /\ ~d[k].readonly /\ d[k].hidden # <<>>
        \/ KindOf(d, k) = "multi" /\ d[k].hidden # <<>>

\* row_cells_has_data
row_cells_has_data(d, cells) ==
    \E k \in cells :
        \/ KindOf(d, k) = "number" /\ ~d[k].readonly /\ Trim(d[k].value) # <<>>
        \/ KindOf(d, k) = "string" /\ ~d[k].readonly /\ Trim(d[k].value) # <<>>
        \/ KindOf(d, k) = "enum" /\ ~d[k].readonly /\ Trim(d[k].hidden) # <<>>
        \/ KindOf(d, k) = "multi" /\ Trim(d[k].hidden) # <<>>

\* row_cells_clear_errors
row_cells_clear_errors(d, cells) ==
    [k \in DOMAIN d |-> IF k \in cells THEN input_clear_error(d[k]) ELSE d[k]]

(***************************************************************************)
(* Field validation: "" is the null of the code, otherwise the error       *)
(***************************************************************************)
\* validate_number_value
validate_number_value(col, cell) ==
    With(Trim(cell.value), LAMBDA raw :
        IF string_is_blank(raw) THEN ""
        ELSE With(number_value_parse(raw), LAMBDA value :
                IF value.null THEN "format"
                ELSE IF ~col.min.null /\ value.v < col.min.v THEN "min"
                ELSE IF ~col.max.null /\ value.v > col.max.v THEN "max"
                ELSE ""))

\* validate_number_required
validate_number_required(col, cell) ==
    IF cell.required /\ string_is_blank(Trim(cell.value)) THEN "required"
    ELSE validate_number_value(col, cell)

\* one of the shapes d, dd, dd-dd, dd-dd-dd, dd-dd-dd-dd
MatchesDashPattern(value) ==
    LET n == Len(value)
    IN  \/ n = 1 /\ value[1] \in Digits
        \/ /\ n \in {2, 5, 8, 11}
           /\ \A i \in 1..n : IF i % 3 = 0 THEN value[i] = "-" ELSE value[i] \in Digits

\* validate_string_pattern
validate_string_pattern(value, format) ==
    IF format = <<"$">> THEN TRUE
    ELSE value = <<>> \/ MatchesDashPattern(value)

\* input_format_error_get
input_format_error_get(col, cell) ==
    IF col.format = <<>> \/ col.format = <<"$">> THEN ""
    ELSE IF Includes(col.format, "#") /\ cell.value # <<>>
            /\ ~validate_string_pattern(cell.value, col.format) THEN "pattern"
    ELSE ""

\* validate_string_required
validate_string_required(col, cell) ==
    IF cell.required /\ Trim(cell.value) = <<>> THEN "required"
    ELSE input_format_error_get(col, cell)

\* validate_enum_required
validate_enum_required(cell) ==
    IF cell.required /\ cell.hidden = <<>> THEN "enum" ELSE ""

\* validate_multi_exclusive_required
validate_multi_exclusive_required(cell) ==
    IF cell.required /\ cell.hidden = <<>> THEN "multi" ELSE ""

\* the validation row_cells_validate runs on the input of one cell
CellError(d, k) ==
    LET col  == columns[d[k].col]
        kind == col.kind
    IN  IF kind = "number" THEN validate_number_required(col, d[k])
        ELSE IF kind = "string" THEN validate_string_required(col, d[k])
        ELSE IF kind = "enum" THEN validate_enum_required(d[k])
        ELSE validate_multi_exclusive_required(d[k])

\* the inputs row_cells_validate visits: multi-exclusive groups always, the
\* others unless readonly
CellIsValidated(d, k) == KindOf(d, k) = "multi" \/ ~d[k].readonly

\* row_cells_validate without its early exit: every visited input gets its
\* error shown (as 'error' when required, else as 'warning') or cleared
RowCellsCheck(d, cells) ==
    [valid |-> \A k \in cells : CellIsValidated(d, k) => CellError(d, k) = "",
     dom |-> [k \in DOMAIN d |->
                IF k \in cells /\ CellIsValidated(d, k)
                THEN IF CellError(d, k) # ""
                     THEN input_show_error(d[k], IF d[k].required THEN "error" ELSE "warning")
                     ELSE input_clear_error(d[k])
                ELSE d[k]]]

\* row_cells_validate without its early exit for a row that has no data
row_cells_validate_unconditional(d, cells) == RowCellsCheck(d, cells)

\* row_cells_validate: the result and the document with the error display updated
row_cells_validate(d, cells) ==
    IF ~row_cells_has_data(d, cells)
    THEN [valid |-> TRUE, dom |-> row_cells_clear_errors(d, cells)]
    ELSE RowCellsCheck(d, cells)

\* the ascending sequence of a finite set of integers
RECURSIVE SortedSeq(_)
SortedSeq(S) ==
    IF S = {} THEN <<>>
    ELSE LET m == CHOOSE x \in S : \A y \in S : x <= y
         IN  <<m>> \o SortedSeq(S \ {m})

\* table_validate_all: every row is validated, a failing one does not stop the walk
RECURSIVE ValidateRows(_, _)
ValidateRows(d, indices) ==
    IF indices = <<>> THEN [valid |-> TRUE, dom |-> d]
    ELSE With(row_cells_validate(d, row_cells_get(d, Head(indices))), LAMBDA r :
            With(ValidateRows(r.dom, Tail(indices)), LAMBDA rest :
                [valid |-> r.valid /\ rest.valid, dom |-> rest.dom]))

table_validate_all(d) == ValidateRows(d, SortedSeq(all_row_indices_get(d)))

(***************************************************************************)
(* Serialization.  An object is a function from the names of the fields    *)
(* it holds to their JSON values.                                          *)
(***************************************************************************)
JsonNumber(n) == [t |-> "number", n |-> n, s |-> <<>>]
JsonString(s) == [t |-> "string", n |-> 0, s |-> s]

\* whether the input of cell k adds its key to the object, and with what value
CellIsSerialized(d, k) ==
    LET kind == KindOf(d, k)
    IN  IF kind = "number" THEN ~number_value_parse(d[k].value).null
        ELSE IF kind = "string" THEN Trim(d[k].value) # <<>>
        ELSE d[k].hidden # <<>>

CellJson(d, k) ==
    LET kind == KindOf(d, k)
    IN  IF kind = "number" THEN JsonNumber(number_value_parse(d[k].value).v)
        ELSE IF kind = "string" THEN JsonString(Trim(d[k].value))
        ELSE JsonString(d[k].hidden)

\* the object built from a set of cells; of two inputs with one name the later wins
ObjectOf(d, cells) ==
    LET ser  == {k \in cells : CellIsSerialized(d, k)}
        keys == {columns[d[k].col].name : k \in ser}
        last(name) == CHOOSE k \in ser :
                        /\ columns[d[k].col].name = name
                        /\ \A j \in ser : columns[d[j].col].name = name => j <= k
    IN  [name \in keys |-> CellJson(d, last(name))]

\* table_serialize: one object per row that has data, in ascending row index
RECURSIVE SerializeRows(_, _)
SerializeRows(d, indices) ==
    IF indices = <<>> THEN <<>>
    ELSE LET cells == row_cells_get(d, Head(indices))
         IN  (IF row_cells_has_data(d, cells) THEN <<ObjectOf(d, cells)>> ELSE <<>>)
             \o SerializeRows(d, Tail(indices))

table_serialize(d) == SerializeRows(d, SortedSeq(all_row_indices_get(d)))

\* table_serialize_vertical: one object from every input of the table
table_serialize_vertical(d) == ObjectOf(d, DOMAIN d)

(***************************************************************************)
(* Input normalisation                                                     *)
(***************************************************************************)
\* table_handle_input_number with nothing removed from the text
NormalizeNumber_unfiltered(typed, format) == ReplaceFirst(typed, ".", ",")

\* what table_handle_input_number leaves in the input for the typed text
NormalizeNumber(typed, format) ==
    LET fmt   == number_format_parse(format)
        v1    == ReplaceFirst(typed, ".", ",")
        v2    == IF fmt.decimals > 0
                 THEN SelectSeq(v1, LAMBDA c : c \in Digits \/ c = "," \/ c = "-")
                 ELSE SelectSeq(v1, LAMBDA c : c \in Digits \/ c = "-")
        v3    == IF Includes(v2, "-")
                 THEN (IF v2[1] = "-" THEN <<"-">> ELSE <<>>)
                      \o SelectSeq(v2, LAMBDA c : c # "-")
                 ELSE v2
        fc    == IndexOf(v3, ",")
        v4    == IF fc > 0
                 THEN SubSeq(v3, 1, fc)
                      \o SelectSeq(SubSeq(v3, fc + 1, Len(v3)), LAMBDA c : c # ",")
                 ELSE v3
        dec   == SubSeq(v4, fc + 1, Len(v4))
    IN  IF fmt.decimals > 0 /\ fc > 0
        THEN SubSeq(v4, 1, fc)
             \o SubSeq(dec, 1, IF Len(dec) < fmt.decimals THEN Len(dec) ELSE fmt.decimals)
        ELSE v4

\* string_format_pattern: the first 8 digits in groups of two joined by dashes
RECURSIVE GroupPairs(_)
GroupPairs(ds) ==
    IF Len(ds) <= 2 THEN ds
    ELSE SubSeq(ds, 1, 2) \o <<"-">> \o GroupPairs(SubSeq(ds, 3, Len(ds)))

\* the grouping applied to every digit of the text
string_format_pattern_uncapped(value) ==
    GroupPairs(SelectSeq(value, LAMBDA c : c \in Digits))

string_format_pattern(value) ==
    LET digits == SelectSeq(value, LAMBDA c : c \in Digits)
    IN  GroupPairs(SubSeq(digits, 1, IF Len(digits) < 8 THEN Len(digits) ELSE 8))

\* table_handle_input_number on the cell, the typed text already in its input
table_handle_input_number(cell, typed) ==
    LET col == columns[cell.col]
    IN  With([cell EXCEPT !.value =
                 NormalizeNumber(typed, IF col.format = <<>> THEN <<"#", "#", "#", "0">>
                                        ELSE col.format)],
             LAMBDA c1 :
                IF validate_number_value(col, c1) # ""
                THEN input_show_error(c1, IF c1.required THEN "error" ELSE "warning")
                ELSE input_clear_error(c1))

\* table_handle_input_string on the cell, the typed text already in its input
table_handle_input_string(cell, typed) ==
    LET col    == columns[cell.col]
        format == IF col.format = <<>> THEN <<"$">> ELSE col.format
        c0     == [cell EXCEPT !.value = typed]
        c1     == IF Includes(format, "#")
                  THEN [c0 EXCEPT !.value = string_format_pattern(typed)]
                  ELSE c0
    IN  IF format = <<"$">> THEN c0
        ELSE IF input_format_error_get(col, c1) # ""
        THEN input_show_error(c1, IF c1.required THEN "error" ELSE "warning")
        ELSE input_clear_error(c1)

(***************************************************************************)
(* Save                                                                    *)
(***************************************************************************)
SAVE_COOLDOWN_MS == 3000

NoToast == [type |-> "none", msg |-> "", n |-> 0]
Toast(type, msg) == [type |-> type, msg |-> msg, n |-> 0]

\* Math.ceil(ms / 1000) for ms >= 0
CeilSeconds(ms) == (ms + 999) \div 1000

\* the payload of a save: the array of row objects, or for the vertical
\* variant the single object
Payload(type, d) ==
    IF type = "VERTICAL_STATIC_UNIQUE"
    THEN [shape |-> "object", items |-> <<table_serialize_vertical(d)>>]
    ELSE [shape |-> "array", items |-> table_serialize(d)]

\* an emptiness test that never finds the payload empty
PayloadIsEmpty_never(data) == FALSE

\* the emptiness test of table_save on the serialized data
PayloadIsEmpty(data) ==
    IF data.shape = "object" THEN DOMAIN data.items[1] = {}
    ELSE Len(data.items) = 0

NoPayload == [shape |-> "array", items |-> <<>>]

\* the cooldown test with the window taken in seconds against a difference in
\* milliseconds
CooldownActive_seconds(lst, t) == t - lst < SAVE_COOLDOWN_MS \div 1000

\* the cooldown test with the end of the window counted in
CooldownActive_inclusive(lst, t) == t - lst <= SAVE_COOLDOWN_MS

\* the cooldown test of table_save
CooldownActive(lst, t) == t - lst < SAVE_COOLDOWN_MS

\* table_save without its validation gate
SaveValidated_unchecked(type, d) ==
    LET data == Payload(type, d)
    IN  IF PayloadIsEmpty(data)
        THEN [result |-> "empty", dom |-> d,
              toast |-> Toast("warning", "no_data"), data |-> NoPayload]
        ELSE [result |-> "sent", dom |-> d, toast |-> NoToast, data |-> data]

\* table_save from its validation gate to its network call
SaveValidated(type, d) ==
    With(table_validate_all(d), LAMBDA v :
        IF ~v.valid
        THEN [result |-> "invalid", dom |-> v.dom,
              toast |-> Toast("error", "form_errors"), data |-> NoPayload]
        ELSE With(Payload(type, v.dom), LAMBDA data :
                IF PayloadIsEmpty(data)
                THEN [result |-> "empty", dom |-> v.dom,
                      toast |-> Toast("warning", "no_data"), data |-> NoPayload]
                ELSE [result |-> "sent", dom |-> v.dom, toast |-> NoToast,
                      data |-> data]))

\* table_save without its test of pending_save
table_save_unguarded(type, d, pending, lst, t) ==
    IF CooldownActive(lst, t)
    THEN [result |-> "cooldown", dom |-> d,
          toast |-> [type |-> "warning", msg |-> "cooldown",
                     n |-> CeilSeconds(SAVE_COOLDOWN_MS - (t - lst))],
          data |-> NoPayload]
    ELSE SaveValidated(type, d)

\* table_save up to its network call: what it decides, the document after
\* validation, the toast it shows and the payload it sends
table_save(type, d, pending, lst, t) ==
    IF pending
    THEN [result |-> "pending", dom |-> d, toast |-> NoToast, data |-> NoPayload]
    ELSE IF CooldownActive(lst, t)
    THEN [result |-> "cooldown", dom |-> d,
          toast |-> [type |-> "warning", msg |-> "cooldown",
                     n |-> CeilSeconds(SAVE_COOLDOWN_MS - (t - lst))],
          data |-> NoPayload]
    ELSE SaveValidated(type, d)

\* last_save_time set by every response, acknowledged or not
ResponseSaveTime_always(outcome, lst, t) == t

\* last_save_time after the response of a save
ResponseSaveTime(outcome, lst, t) == IF outcome = "ok" THEN t ELSE lst

\* pending_save reset only where the try block ends without an exception
ResponsePending_on_success(outcome) == outcome # "ok"

\* pending_save after the response of a save: the finally block
ResponsePending(outcome) == FALSE

\* the toast of the response of a save
ResponseToast(outcome) ==
    IF outcome = "ok" THEN Toast("success", "saved") ELSE Toast("error", "save_error")

\* the POST a save sends: its payload, the time of the attempt and the save
\* timestamp the attempt found
Post(s, t, lst) == [body |-> s.data, started |-> t, lst0 |-> lst]

RemoveAt(q, i) == SubSeq(q, 1, i - 1) \o SubSeq(q, i + 1, Len(q))

\* the cells row_cells_show_success marks after an acknowledged save
SuccessMarks(d) ==
    {k \in DOMAIN d :
        /\ row_cells_has_data(d, row_cells_get(d, d[k].row_index))
        /\ ~d[k].readonly
        /\ \/ KindOf(d, k) \in {"number", "string"} /\ Trim(d[k].value) # <<>>
           \/ KindOf(d, k) = "enum" /\ d[k].hidden # <<>>}

(***************************************************************************)
(* The page as rendered by the server                                      *)
(***************************************************************************)
\* Date.now() when table_init runs: far above the cooldown window
PageLoadTime == 10000

\* the codes of the subtable and the text of each
Codes == {"01", "02"}

CodeText(code) == IF code = "01" THEN <<"0", "1">> ELSE <<"0", "2">>

\* columns of a subtable: a code column (name ending in _Kod), a number and a text
ColKod == [name |-> "Wartosc_Kod", kind |-> "string", format |-> <<"$">>,
           min |-> Null, max |-> Null]
ColLiczba == [name |-> "Wartosc_Liczba", kind |-> "number",
              format |-> <<"#", "#", "#", "0", ",", "0", "0">>,
              min |-> Num(0), max |-> Null]
ColOpis == [name |-> "Wartosc_Opis", kind |-> "string", format |-> <<"$">>,
            min |-> Null, max |-> Null]

HorizontalColumns == <<ColKod, ColLiczba>>
VerticalColumns == <<ColLiczba, ColOpis>>

\* the codes of the rows of the static horizontal grid
StaticCodes == <<"01", "02">>

\* the cells of one horizontal row: the _Kod cell is not editable and holds the
\* code, the others are editable and empty
RowFragment(idx, code, req) ==
    [j \in 1..Len(HorizontalColumns) |->
        IF j = 1 THEN Cell(idx, code, j, CodeText(code), TRUE, FALSE)
        ELSE Cell(idx, code, j, <<>>, FALSE, req[j])]

RECURSIVE StaticRowsDom(_, _)
StaticRowsDom(n, req) ==
    IF n = 0 THEN <<>>
    ELSE StaticRowsDom(n - 1, req) \o RowFragment(n - 1, StaticCodes[n], req)

\* the vertical variant: one row of one cell per column
VerticalDom(req) ==
    [j \in 1..Len(VerticalColumns) |-> Cell(j - 1, "", j, <<>>, FALSE, req[j])]

\* table_init
TableInit(type) ==
    /\ tableType = type
    /\ is_dynamic = (type \in {"HORIZONTAL_DYNAMIC_UNIQUE", "HORIZONTAL_DYNAMIC_DUPLICABLE"})
    /\ is_unique = (type = "HORIZONTAL_DYNAMIC_UNIQUE")
    /\ row_counter = 0
    /\ pending_save = FALSE
    /\ last_save_time = 0
    /\ now = PageLoadTime
    /\ posts = <<>>
    /\ fetches = <<>>
    /\ toast = NoToast
    /\ server = NoServer

\* ev: the handler that ran last and its outcome.
\*   near, near_live  of a save attempt: it came less than SAVE_COOLDOWN_MS after
\*                    the previous attempt; after an attempt whose POST was
\*                    acknowledged or was still awaiting its response
\*   data             of a save attempt or a serialization: the payload
\*   lst0, marked     of a save response: last_save_time as the attempt found
\*                    it; the cells marked as saved
\*   code, again      of add_row and delete_row: the code of the row; whether a
\*                    row of the code had been added and not deleted since
\*   num              of a handler that renders a number: the number
\*   typed            of an input event: the text the input held when it came
\*   key, body        of a request the server has handled: its survey and
\*                    subtable, and its body
\* A change event of a checkbox records the box in code and, in again, whether
\* another box of the group was checked when it came.
NoEvent == [op |-> "init", result |-> "", near |-> FALSE, near_live |-> FALSE,
            data |-> [shape |-> "array", items |-> <<>>], lst0 |-> 0, marked |-> {},
            code |-> "", again |-> FALSE, num |-> Null, typed |-> <<>>,
            key |-> <<>>, body |-> ""]
Event(op, result) == [NoEvent EXCEPT !.op = op, !.result = result]

\* hist: the time of the last save attempt and the time of the attempt whose
\* POST was acknowledged last (-1: none); the row indices add_row has assigned,
\* in order; the codes added with success and not deleted since; the time of
\* the last acknowledgement of a save (-1: none); the row indices deleted
NoHistory == [attempt_t |-> -1, acked_t |-> -1, assigned |-> <<>>, consumed |-> {},
              saved_t |-> -1, deleted |-> {}]

\* a static grid (horizontal or vertical) without persisted data
InitStatic ==
    /\ \E type \in {"HORIZONTAL_STATIC_UNIQUE", "VERTICAL_STATIC_UNIQUE"} : TableInit(type)
    /\ \E req \in [1..2 -> BOOLEAN] :
        IF tableType = "VERTICAL_STATIC_UNIQUE"
        THEN /\ columns = VerticalColumns
             /\ dom = VerticalDom(req)
        ELSE /\ req[1] = FALSE
             /\ columns = HorizontalColumns
             /\ dom = StaticRowsDom(Len(StaticCodes), req)
    /\ loader = [todo |-> <<>>, awaiting |-> -1]
    /\ selector = [text |-> <<>>, open |-> FALSE, hidden |-> {}, index |-> -1, lit |-> {}]
    /\ ev = NoEvent
    /\ hist = NoHistory

(***************************************************************************)
(* Handlers of a static grid                                               *)
(***************************************************************************)
\* texts the user types into a number input and into a text input
NumberTexts == {<<>>, <<"-">>, <<"5">>, <<"-", "5">>}
StringTexts == {<<>>, <<" ">>, <<"a">>}

dynamic_vars == <<row_counter, fetches, loader, selector>>
table_vars == <<tableType, is_dynamic, is_unique, columns>>

Tick ==
    /\ now + TickMs <= PageLoadTime + MaxElapsed
    /\ now' = now + TickMs
    /\ UNCHANGED <<table_vars, server, dom, pending_save, last_save_time, posts, dynamic_vars,
                   toast, ev, hist>>

\* input_event_route: an input event on a number input
InputNumber(k, typed) ==
    /\ KindOf(dom, k) = "number" /\ ~dom[k].readonly
    /\ dom' = [dom EXCEPT ![k] = table_handle_input_number(dom[k], typed)]
    /\ toast' = NoToast
    /\ ev' = Event("input", "")
    /\ UNCHANGED <<table_vars, server, pending_save, last_save_time, now, posts,
                   dynamic_vars, hist>>

\* input_event_route: an input event on a text input
InputString(k, typed) ==
    /\ KindOf(dom, k) = "string" /\ ~dom[k].readonly
    /\ dom' = [dom EXCEPT ![k] = table_handle_input_string(dom[k], typed)]
    /\ toast' = NoToast
    /\ ev' = Event("input", "")
    /\ UNCHANGED <<table_vars, server, pending_save, last_save_time, now, posts,
                   dynamic_vars, hist>>

\* a call of table_save from a handler that has left the document as d
Within(t0, t) == t0 # -1 /\ t - t0 < SAVE_COOLDOWN_MS

SaveAttempt(d) ==
    \E s \in {table_save(tableType, d, pending_save, last_save_time, now)} :
        /\ dom' = s.dom
        /\ toast' = s.toast
        /\ pending_save' = (pending_save \/ s.result = "sent")
        /\ posts' = IF s.result = "sent"
                    THEN Append(posts, Post(s, now, last_save_time))
                    ELSE posts
        /\ ev' = [Event("table_save", s.result) EXCEPT
                    !.near = Within(hist.attempt_t, now),
                    !.near_live = \/ Within(hist.acked_t, now)
                                  \/ \E i \in DOMAIN posts : Within(posts[i].started, now),
                    !.data = s.data]
        /\ hist' = [hist EXCEPT !.attempt_t = now]

\* table_handle_keydown: Enter in a number or text input
KeydownEnter(k) ==
    /\ KindOf(dom, k) \in {"number", "string"}
    /\ \E r \in {row_cells_validate(dom, row_cells_get(dom, dom[k].row_index))} :
           IF r.valid
           THEN SaveAttempt(r.dom)
           ELSE /\ dom' = r.dom
                /\ toast' = Toast("error", "row_errors")
                /\ ev' = Event("keydown_enter", "row_invalid")
                /\ UNCHANGED <<pending_save, posts, hist>>
    /\ UNCHANGED <<table_vars, server, last_save_time, now, dynamic_vars>>

\* table_save after its network call: what the page does with the response
\* of POST i
SaveSettles(i, outcome) ==
    /\ i \in DOMAIN posts
    /\ posts' = RemoveAt(posts, i)
    /\ last_save_time' = ResponseSaveTime(outcome, last_save_time, now)
    /\ toast' = ResponseToast(outcome)
    /\ IF outcome = "ok"
       THEN /\ ev' = [Event("save_response", outcome) EXCEPT
                        !.marked = SuccessMarks(dom), !.lst0 = posts[i].lst0]
            /\ hist' = [hist EXCEPT !.acked_t = posts[i].started, !.saved_t = now]
       ELSE /\ ev' = [Event("save_response", outcome) EXCEPT !.lst0 = posts[i].lst0]
            /\ hist' = hist
    /\ pending_save' = ResponsePending(outcome)
    /\ UNCHANGED <<table_vars, dom, now, dynamic_vars>>

\* the response of POST i arrives; the server is not part of the behaviour
SaveResponse(i, outcome) == SaveSettles(i, outcome) /\ UNCHANGED server

\* a blur whose timeout clears the error display of every row
table_handle_blur_all_rows(d, k) ==
    LET fmt   == number_format_parse(IF columns[d[k].col].format = <<>>
                                     THEN <<"#", "#", "#", "0">>
                                     ELSE columns[d[k].col].format)
        cells == row_cells_get(d, d[k].row_index)
    IN  With(number_value_parse(d[k].value), LAMBDA value :
        With(IF KindOf(d, k) = "number" /\ ~value.null
             THEN [d EXCEPT ![k].value = number_format_value(value.v, fmt)]
             ELSE d,
             LAMBDA d1 : IF ~row_cells_has_data(d1, cells)
                         THEN row_cells_clear_errors(d1, DOMAIN d1)
                         ELSE d1))

\* table_handle_blur on the input of cell k, with the check its timeout makes
table_handle_blur(d, k) ==
    LET fmt   == number_format_parse(IF columns[d[k].col].format = <<>>
                                     THEN <<"#", "#", "#", "0">>
                                     ELSE columns[d[k].col].format)
        cells == row_cells_get(d, d[k].row_index)
    IN  With(number_value_parse(d[k].value), LAMBDA value :
        With(IF KindOf(d, k) = "number" /\ ~value.null
             THEN [d EXCEPT ![k].value = number_format_value(value.v, fmt)]
             ELSE d,
             LAMBDA d1 : IF ~row_cells_has_data(d1, cells)
                         THEN row_cells_clear_errors(d1, cells)
                         ELSE d1))

\* table_handle_blur
Blur(k) ==
    /\ dom' = table_handle_blur(dom, k)
    /\ ev' = Event("blur", IF dom'[k].value = dom[k].value THEN "same" ELSE "changed")
    /\ toast' = toast
    /\ UNCHANGED <<table_vars, server, pending_save, last_save_time, now, posts,
                   dynamic_vars, hist>>

SaveOutcomes == {"ok", "http_error", "network_error"}

NextSave ==
    \/ Tick
    \/ \E k \in DOMAIN dom : \E typed \in NumberTexts : InputNumber(k, typed)
    \/ \E k \in DOMAIN dom : \E typed \in StringTexts : InputString(k, typed)
    \/ \E k \in DOMAIN dom : KeydownEnter(k)
    \/ \E i \in DOMAIN posts : \E outcome \in SaveOutcomes : SaveResponse(i, outcome)

SpecSave == InitStatic /\ [][NextSave]_vars

(***************************************************************************)
(* Dynamic grids: the row provisioner and the row selector                 *)
(***************************************************************************)
\* the label of the option of a code in the row selector
CodeLabel(code) == IF code = "01" THEN <<"a">> ELSE <<"b">>

\* the options of the row selector in document order
SelectorOptions == <<"01", "02">>

ToLower(c) == IF c = "A" THEN "a" ELSE IF c = "B" THEN "b" ELSE c

LowerCase(s) == [i \in 1..Len(s) |-> ToLower(s[i])]

\* String.prototype.includes
IncludesText(s, q) ==
    \E i \in 0..(Len(s) - Len(q)) : SubSeq(s, i + 1, i + Len(q)) = q

\* the text "value - label" an option is matched by
OptionText(code) == CodeText(code) \o <<" ", "-", " ">> \o CodeLabel(code)

\* the persisted records of the page: data-initial, already parsed
Record(code, liczba) == [Wartosc_Kod |-> code, Wartosc_Liczba |-> liczba]

InitialData ==
    {<<>>, <<Record("01", Num(1250))>>, <<Record("02", Null), Record("01", Num(500))>>}

\* populate_cells_from_data on the cells of a row
populate_cells_from_data(d, cells, rowData) ==
    [k \in DOMAIN d |->
        IF k \in cells
        THEN LET col == columns[d[k].col]
             IN  IF col.name = "Wartosc_Liczba" /\ col.kind = "number"
                    /\ ~rowData.Wartosc_Liczba.null
                 THEN [d[k] EXCEPT !.value =
                         number_format_value(rowData.Wartosc_Liczba.v,
                             number_format_parse(IF col.format = <<>>
                                                 THEN <<"#", "#", "#", "0">>
                                                 ELSE col.format))]
                 ELSE IF col.name = "Wartosc_Kod" /\ col.kind = "string"
                 THEN [d[k] EXCEPT !.value = CodeText(rowData.Wartosc_Kod)]
                 ELSE d[k]
        ELSE d[k]]

\* dynamic_table_add_row up to its fetch: the index it takes from the counter
AddRowIndex(counter) == counter

\* the counter read without the increment
AddRowCounter_stuck(counter) == counter

\* the counter after dynamic_table_add_row has taken its index
AddRowCounter(counter) == counter + 1

\* the GET of a row fragment: the index and code asked for, who asked
Fetch(index, code, by) == [index |-> index, code |-> code, by |-> by]

\* the options of the selector that are no longer offered once a row of the
\* code has been inserted
HideOption(unique, hidden, code) == IF unique THEN hidden \cup {code} ELSE hidden

\* the options offered again once a row of the code has been deleted
ShowOption(unique, hidden, code) == IF unique THEN hidden \ {code} ELSE hidden

\* the persisted records with a code, which the loop of the loader visits
WithCode(records) == SelectSeq(records, LAMBDA r : r.Wartosc_Kod # "")

\* dynamic_table_load_existing up to its first await
LoaderStart(data) ==
    LET todo == WithCode(data)
    IN  IF todo = <<>>
        THEN /\ loader = [todo |-> <<>>, awaiting |-> -1]
             /\ row_counter = 0
             /\ fetches = <<>>
             /\ hist = NoHistory
        ELSE /\ loader = [todo |-> todo, awaiting |-> AddRowIndex(0)]
             /\ row_counter = AddRowCounter(0)
             /\ fetches = <<Fetch(AddRowIndex(0), todo[1].Wartosc_Kod, "loader")>>
             /\ hist = [NoHistory EXCEPT !.assigned = <<AddRowIndex(0)>>]

\* a dynamic grid: no rows are rendered, the loader has started
InitDynamic ==
    /\ \E type \in {"HORIZONTAL_DYNAMIC_UNIQUE", "HORIZONTAL_DYNAMIC_DUPLICABLE"} :
        /\ tableType = type
        /\ is_dynamic = TRUE
        /\ is_unique = (type = "HORIZONTAL_DYNAMIC_UNIQUE")
    /\ columns = HorizontalColumns
    /\ dom = <<>>
    /\ pending_save = FALSE
    /\ last_save_time = 0
    /\ now = PageLoadTime
    /\ posts = <<>>
    /\ toast = NoToast
    /\ selector = [text |-> <<>>, open |-> FALSE, hidden |-> {}, index |-> -1, lit |-> {}]
    /\ ev = NoEvent
    /\ server = NoServer
    /\ \E data \in InitialData : LoaderStart(data)

save_vars == <<pending_save, last_save_time, now, posts>>

\* a call of dynamic_table_add_row by a handler: the index is taken, the GET sent
AddRowCall(code) ==
    /\ row_counter < MaxAddCalls
    /\ row_counter' = AddRowCounter(row_counter)
    /\ fetches' = Append(fetches, Fetch(AddRowIndex(row_counter), code, "user"))
    /\ hist' = [hist EXCEPT !.assigned = Append(@, AddRowIndex(row_counter))]
    /\ toast' = NoToast

\* table_handle_focus / table_handle_click on the input of the row selector
SelectorFocus ==
    /\ selector' = [selector EXCEPT !.open = TRUE, !.index = -1]
    /\ toast' = NoToast
    /\ ev' = Event("selector_focus", "")
    /\ UNCHANGED <<table_vars, server, dom, save_vars, row_counter, fetches, loader, hist>>

\* the filter without its test for options the unique mode has hidden
FilterOptions_by_text(unique, hidden, query) ==
    {c \in Codes : ~IncludesText(LowerCase(OptionText(c)), LowerCase(query))}

\* the hidden options after dynamic_table_handle_selector_input
FilterOptions(unique, hidden, query) ==
    {c \in Codes :
        IF unique /\ c \in hidden THEN TRUE
        ELSE ~IncludesText(LowerCase(OptionText(c)), LowerCase(query))}

\* texts typed into the row selector
SelectorTexts == {<<>>, <<"1">>, <<"B">>}

\* dynamic_table_handle_selector_input
SelectorInput(text) ==
    /\ selector' = [text |-> text, open |-> TRUE, index |-> -1,
                    hidden |-> FilterOptions(is_unique, selector.hidden, text),
                    lit |-> {c \in selector.lit : is_unique /\ c \in selector.hidden}]
    /\ toast' = NoToast
    /\ ev' = Event("selector_input", "")
    /\ UNCHANGED <<table_vars, server, dom, save_vars, row_counter, fetches, loader, hist>>

\* the options of the selector that are not hidden, in document order
VisibleOptions(hidden) == SelectSeq(SelectorOptions, LAMBDA c : c \notin hidden)

Min(a, b) == IF a < b THEN a ELSE b
Max(a, b) == IF a > b THEN a ELSE b

\* the options that carry the highlight class once the key handler has toggled
\* it on the displayed options: the one at the index, and the hidden options
\* that carried it
Highlight(lit, options, index) ==
    {c \in lit : \A i \in DOMAIN options : options[i] # c}
        \cup (IF 0 <= index /\ index < Len(options) THEN {options[index + 1]} ELSE {})

\* dynamic_table_handle_selector_keydown
SelectorKeydown(key) ==
    LET options == VisibleOptions(selector.hidden)
        index   == selector.index
    IN  /\ IF key = "Escape"
           THEN /\ selector' = [selector EXCEPT !.open = FALSE]
                /\ ev' = Event("selector_keydown", key)
                /\ toast' = NoToast
                /\ UNCHANGED <<row_counter, fetches, hist>>
           ELSE IF key = "ArrowDown" /\ ~selector.open
           THEN /\ selector' = [selector EXCEPT !.open = TRUE]
                /\ ev' = Event("selector_keydown", key)
                /\ toast' = NoToast
                /\ UNCHANGED <<row_counter, fetches, hist>>
           ELSE IF ~selector.open
           THEN /\ ev' = Event("selector_keydown", "closed")
                /\ toast' = NoToast
                /\ UNCHANGED <<selector, row_counter, fetches, hist>>
           ELSE IF key = "ArrowDown"
           THEN /\ selector' = [selector EXCEPT
                                  !.index = Min(index + 1, Len(options) - 1),
                                  !.lit = Highlight(@, options, Min(index + 1, Len(options) - 1))]
                /\ ev' = Event("selector_keydown", key)
                /\ toast' = NoToast
                /\ UNCHANGED <<row_counter, fetches, hist>>
           ELSE IF key = "ArrowUp"
           THEN /\ selector' = [selector EXCEPT
                                  !.index = Max(index - 1, 0),
                                  !.lit = Highlight(@, options, Max(index - 1, 0))]
                /\ ev' = Event("selector_keydown", key)
                /\ toast' = NoToast
                /\ UNCHANGED <<row_counter, fetches, hist>>
           ELSE IF index >= 0 /\ index + 1 <= Len(options)
           THEN /\ AddRowCall(options[index + 1])
                /\ ev' = [Event("add_row", "keyboard") EXCEPT
                            !.code = options[index + 1],
                            !.again = options[index + 1] \in hist.consumed]
                /\ UNCHANGED selector
           ELSE /\ ev' = Event("selector_keydown", "nothing")
                /\ toast' = NoToast
                /\ UNCHANGED <<selector, row_counter, fetches, hist>>
        /\ UNCHANGED <<table_vars, server, dom, save_vars, loader>>

SelectorKeys == {"Escape", "ArrowDown", "ArrowUp", "Enter"}

\* table_handle_click on an option of the row selector: only an option that
\* is displayed can be clicked
SelectorClick(code) ==
    /\ selector.open
    /\ code \notin selector.hidden
    /\ AddRowCall(code)
    /\ ev' = [Event("add_row", "click") EXCEPT
                !.code = code, !.again = code \in hist.consumed]
    /\ UNCHANGED <<table_vars, server, dom, save_vars, loader, selector>>

\* the fragment inserted without looking at the response
InsertFragment_unchecked(d, fragment, ok) == d \o fragment

\* dynamic_table_add_row: insertAdjacentHTML, reached only with a 2xx response
InsertFragment(d, fragment, ok) == IF ok THEN d \o fragment ELSE d

\* dynamic_table_add_row after its fetch, and the loader when the call was its own
FetchResponse(i, ok) ==
    /\ i \in DOMAIN fetches
    /\ LET f == fetches[i]
           d1 == InsertFragment(dom, RowFragment(f.index, f.code, [j \in 1..2 |-> j = 2]), ok)
           mine == f.by = "loader"
           filled == IF mine /\ ok
                     THEN populate_cells_from_data(d1, row_cells_get(d1, row_counter - 1),
                                                   Head(loader.todo))
                     ELSE d1
           rest == IF mine THEN Tail(loader.todo) ELSE <<>>
           more == mine /\ rest # <<>> /\ row_counter < MaxAddCalls
       IN  /\ dom' = filled
           /\ selector' = IF ok
                          THEN [selector EXCEPT
                                  !.hidden = HideOption(is_unique, @, f.code),
                                  !.text = <<>>, !.open = FALSE]
                          ELSE selector
           /\ toast' = IF ok THEN NoToast ELSE Toast("error", "add_row_error")
           /\ loader' = IF ~mine THEN loader
                        ELSE IF more
                        THEN [todo |-> rest, awaiting |-> AddRowIndex(row_counter)]
                        ELSE [todo |-> <<>>, awaiting |-> -1]
           /\ row_counter' = IF more THEN AddRowCounter(row_counter) ELSE row_counter
           /\ fetches' = IF more
                         THEN Append(RemoveAt(fetches, i),
                                     Fetch(AddRowIndex(row_counter), rest[1].Wartosc_Kod,
                                           "loader"))
                         ELSE RemoveAt(fetches, i)
           /\ hist' = [hist EXCEPT
                         !.assigned = IF more THEN Append(@, AddRowIndex(row_counter)) ELSE @,
                         !.consumed = IF ok THEN @ \cup {f.code} ELSE @]
           /\ ev' = [Event("add_row_done", IF ok THEN "ok" ELSE "failed") EXCEPT
                       !.code = f.code]
    /\ UNCHANGED <<table_vars, server, save_vars>>

\* the removal of every cell that carries the code of the row
RemoveRow_by_code(d, rowIndex, rowCode) == SelectSeq(d, LAMBDA c : c.row_code # rowCode)

\* dynamic_table_delete_row: the cells of the row index are removed
RemoveRow(d, rowIndex, rowCode) == SelectSeq(d, LAMBDA c : c.row_index # rowIndex)

\* dynamic_table_delete_row, from a click on the delete button of a cell
DeleteRow(k) ==
    /\ k \in DOMAIN dom
    /\ LET rowIndex == dom[k].row_index
           rowCode  == dom[k].row_code
       IN  /\ dom' = RemoveRow(dom, rowIndex, rowCode)
           /\ selector' = [selector EXCEPT !.hidden = ShowOption(is_unique, @, rowCode)]
           /\ hist' = [hist EXCEPT !.consumed = @ \ {rowCode},
                                   !.deleted = @ \cup {rowIndex}]
    /\ toast' = NoToast
    /\ ev' = [Event("delete_row", "") EXCEPT !.code = dom[k].row_code]
    /\ UNCHANGED <<table_vars, server, save_vars, row_counter, fetches, loader>>

NextRows ==
    \/ SelectorFocus
    \/ \E text \in SelectorTexts : SelectorInput(text)
    \/ \E key \in SelectorKeys : SelectorKeydown(key)
    \/ \E code \in Codes : SelectorClick(code)
    \/ \E i \in DOMAIN fetches : \E ok \in BOOLEAN : FetchResponse(i, ok)
    \/ \E k \in DOMAIN dom : DeleteRow(k)

SpecRows == InitDynamic /\ [][NextRows]_vars


(***************************************************************************)
(* Row validation and serialization on a row in any condition              *)
(*                                                                         *)
(* One horizontal row with a cell of every kind, left by earlier edits and *)
(* validations with any of the contents and error markers below.           *)
(***************************************************************************)
ColTyp == [name |-> "Wartosc_Typ", kind |-> "enum", format |-> <<>>,
           min |-> Null, max |-> Null]
ColCechy == [name |-> "Wartosc_Cechy", kind |-> "multi", format |-> <<>>,
             min |-> Null, max |-> Null]

RowColumns == <<ColKod, ColLiczba, ColOpis, ColTyp, ColCechy>>

\* contents of a number input, of a text input, of an enum input (visible text
\* and hidden value) and of a multi-exclusive group
RowNumberTexts == NumberTexts \cup {<<" ">>}
RowStringTexts == StringTexts
RowEnumValues == {[value |-> <<>>, hidden |-> <<>>],
                  [value |-> <<"z">>, hidden |-> <<>>],
                  [value |-> <<"x">>, hidden |-> <<"x">>]}
RowMultiValues == {<<>>, <<"A">>}

\* the error marker validation leaves on the input of a required or optional field
Markers(required) == {"none", IF required THEN "error" ELSE "warning"}

InitOneRow ==
    /\ TableInit("HORIZONTAL_STATIC_UNIQUE")
    /\ columns = RowColumns
    /\ \E req \in [2..5 -> BOOLEAN] :
       \E liczba \in RowNumberTexts, opis \in RowStringTexts :
       \E typ \in RowEnumValues, cechy \in RowMultiValues :
       \E m2 \in Markers(req[2]), m4 \in Markers(req[4]) :
            dom = << Cell(0, "01", 1, CodeText("01"), TRUE, FALSE),
                     [Cell(0, "01", 2, liczba, FALSE, req[2]) EXCEPT !.err = m2],
                     Cell(0, "01", 3, opis, FALSE, req[3]),
                     [Cell(0, "01", 4, typ.value, FALSE, req[4]) EXCEPT
                        !.hidden = typ.hidden, !.err = m4],
                     [Cell(0, "01", 5, <<>>, FALSE, req[5]) EXCEPT !.hidden = cechy] >>
    /\ loader = [todo |-> <<>>, awaiting |-> -1]
    /\ selector = [text |-> <<>>, open |-> FALSE, hidden |-> {}, index |-> -1, lit |-> {}]
    /\ ev = NoEvent
    /\ hist = NoHistory

\* row_cells_validate applied to the row
RowValidate ==
    LET r == row_cells_validate(dom, row_cells_get(dom, 0))
    IN  /\ dom' = r.dom
        /\ ev' = Event("row_cells_validate", IF r.valid THEN "valid" ELSE "invalid")
        /\ UNCHANGED <<table_vars, server, pending_save, last_save_time, now, posts,
                       dynamic_vars, toast, hist>>

\* table_serialize applied to the grid
RowSerialize ==
    /\ ev' = [Event("table_serialize", "") EXCEPT !.data = Payload(tableType, dom)]
    /\ UNCHANGED <<table_vars, server, dom, pending_save, last_save_time, now, posts,
                   dynamic_vars, toast, hist>>

NextOneRow == RowValidate \/ RowSerialize

SpecOneRow == InitOneRow /\ [][NextOneRow]_vars


(***************************************************************************)
(* Rendering of numbers: a persisted number put into its input, and the    *)
(* input reformatted when it loses the focus                               *)
(***************************************************************************)
\* the format masks of number columns
Masks == { <<"#", "#", "#", "0">>,
           <<"#", " ", "#", "#", "0">>,
           <<"#", "#", "#", "0", ",", "0">>,
           <<"#", "#", "#", "0", ".", "0", "0">>,
           <<"#", " ", "#", "#", "0", ",", "0", "0">>,
           <<"#", "#", "#", "0", ",", "0", "0", "0">> }

\* persisted numbers, in units of 10^-ScaleDigits: around zero, around a half,
\* around the thousands
PersistedNumbers ==
    {0 - 123456, 0 - 100050, 0 - 99995, 0 - 150, 0 - 100, 0 - 51, 0 - 50, 0 - 49,
     0 - 5, 0 - 4, 0 - 1, 0, 1, 4, 5, 49, 50, 51, 100, 150, 1250, 99949, 99950,
     99995, 100000, 123456}

\* a static row of code 01 with a number column of any mask and no bounds
InitFormat ==
    /\ TableInit("HORIZONTAL_STATIC_UNIQUE")
    /\ \E mask \in Masks :
          columns = <<ColKod, [ColLiczba EXCEPT !.format = mask, !.min = Null]>>
    /\ dom = RowFragment(0, "01", [j \in 1..2 |-> FALSE])
    /\ loader = [todo |-> <<>>, awaiting |-> -1]
    /\ selector = [text |-> <<>>, open |-> FALSE, hidden |-> {}, index |-> -1, lit |-> {}]
    /\ ev = NoEvent
    /\ hist = NoHistory

\* populate_cells_from_data with a persisted record of the row
Populate(v) ==
    /\ dom' = populate_cells_from_data(dom, row_cells_get(dom, 0), Record("01", Num(v)))
    /\ ev' = [Event("populate", "") EXCEPT !.num = Num(v)]
    /\ toast' = NoToast
    /\ UNCHANGED <<table_vars, server, pending_save, last_save_time, now, posts,
                   dynamic_vars, hist>>

\* what a number input can hold when its input event comes: any text of up to
\* MaxTyped characters, and some longer ones
MaxTyped == 3
TypedChars == {"-", "1", "a", ","}

TypedTexts ==
    UNION {[1..n -> TypedChars] : n \in 0..MaxTyped}
      \cup { <<".">>, <<"1", ".", "1">>, <<".", ",", "1">>, <<"1", ".", ".">>,
             <<"-", "1", "2", "a", "3">>, <<"1", ",", "2", "3", "4", "5">>,
             <<"-", "1", ",", "1", ",", "1">>, <<"1", ".", "2", ".", "3">>,
             <<"1", "-", " ", "2", ",", "3", "4", "5">> }

\* input_event_route: an input event on a number input that holds typed
TypeNumber(k, typed) ==
    /\ KindOf(dom, k) = "number" /\ ~dom[k].readonly
    /\ dom' = [dom EXCEPT ![k] = table_handle_input_number(dom[k], typed)]
    /\ toast' = NoToast
    /\ ev' = [Event("input", "") EXCEPT !.typed = typed]
    /\ UNCHANGED <<table_vars, server, pending_save, last_save_time, now, posts,
                   dynamic_vars, hist>>

NextFormat ==
    \/ \E v \in PersistedNumbers : Populate(v)
    \/ \E k \in DOMAIN dom : Blur(k)
    \/ \E k \in DOMAIN dom : \E typed \in TypedTexts : TypeNumber(k, typed)

SpecFormat == InitFormat /\ [][NextFormat]_vars


(***************************************************************************)
(* Multi-exclusive checkbox groups                                         *)
(*                                                                         *)
(* A group has one exclusive option and regular options; the value of each *)
(* is one character.                                                       *)
(***************************************************************************)
ExclusiveOption == "X"
RegularOptions == <<"A", "B">>
MultiOptions == RegularOptions \o <<ExclusiveOption>>

\* s.split(',')
RECURSIVE Split(_)
Split(s) ==
    IF ~Includes(s, ",") THEN <<s>>
    ELSE <<SubSeq(s, 1, IndexOf(s, ",") - 1)>> \o Split(SubSeq(s, IndexOf(s, ",") + 1, Len(s)))

\* parts.join(',')
RECURSIVE Join(_)
Join(parts) ==
    IF parts = <<>> THEN <<>>
    ELSE IF Len(parts) = 1 THEN parts[1]
    ELSE parts[1] \o <<",">> \o Join(Tail(parts))

\* the options of opts among the values in checked, as one-character texts
Checked(opts, checked) ==
    SelectSeq([i \in DOMAIN opts |-> <<opts[i]>>],
              LAMBDA o : \E j \in DOMAIN checked : checked[j] = o[1])

\* Checked, as the sequence of values the cell keeps
CheckedValues(opts, checked) ==
    SelectSeq(opts, LAMBDA o : \E j \in DOMAIN checked : checked[j] = o)

\* multi_exclusive_load_value: the boxes checked after it
multi_exclusive_load_value(cell) ==
    IF cell.hidden = <<>> THEN cell
    ELSE LET parts == Split(cell.hidden)
             selectedValues ==
                 SelectSeq([i \in DOMAIN parts |-> Trim(parts[i])], LAMBDA p : p # <<>>)
             Selected(o) == \E i \in DOMAIN selectedValues : selectedValues[i] = <<o>>
         IN  IF Selected(ExclusiveOption)
             THEN [cell EXCEPT !.value = <<ExclusiveOption>>]
             ELSE [cell EXCEPT !.value = SelectSeq(RegularOptions, Selected)]

\* multi_exclusive_update_value
multi_exclusive_update_value(cell) ==
    [cell EXCEPT !.hidden =
        IF \E j \in DOMAIN cell.value : cell.value[j] = ExclusiveOption
        THEN <<ExclusiveOption>>
        ELSE Join(Checked(RegularOptions, cell.value))]

\* the boxes checked once the browser has toggled the box of option target
Toggle(checked, target) ==
    IF \E j \in DOMAIN checked : checked[j] = target
    THEN SelectSeq(checked, LAMBDA o : o # target)
    ELSE CheckedValues(MultiOptions, Append(checked, target))

\* multi_exclusive_handle_change without the unchecking of the other boxes
multi_exclusive_handle_change_keep(cell, target) ==
    multi_exclusive_update_value(cell)

\* multi_exclusive_handle_change up to multi_exclusive_update_value; cell holds
\* the boxes as toggled
multi_exclusive_handle_change(cell, target) ==
    LET targetChecked == \E j \in DOMAIN cell.value : cell.value[j] = target
        boxes == IF target = ExclusiveOption
                 THEN IF targetChecked THEN <<ExclusiveOption>> ELSE cell.value
                 ELSE IF targetChecked
                      THEN SelectSeq(cell.value, LAMBDA o : o # ExclusiveOption)
                      ELSE cell.value
    IN  multi_exclusive_update_value([cell EXCEPT !.value = boxes])

\* hidden values of a group as persisted
PersistedMulti == { <<>>, <<"A">>, <<"X">>, <<"A", ",", "B">>, <<"A", ",", "X">>,
                    <<"B", ",", " ", "A">>, <<"C">> }

MultiColumns == <<ColKod, ColLiczba, ColCechy>>

\* a static row of code 01 with a number and a multi-exclusive group, after
\* multi_exclusive_init; the page is taken to render the boxes unchecked
InitMulti ==
    /\ TableInit("HORIZONTAL_STATIC_UNIQUE")
    /\ columns = MultiColumns
    /\ \E req \in BOOLEAN, persisted \in PersistedMulti :
          dom = << Cell(0, "01", 1, CodeText("01"), TRUE, FALSE),
                   Cell(0, "01", 2, <<>>, FALSE, FALSE),
                   multi_exclusive_load_value(
                       [Cell(0, "01", 3, <<>>, FALSE, req) EXCEPT !.hidden = persisted]) >>
    /\ loader = [todo |-> <<>>, awaiting |-> -1]
    /\ selector = [text |-> <<>>, open |-> FALSE, hidden |-> {}, index |-> -1, lit |-> {}]
    /\ ev = NoEvent
    /\ hist = NoHistory

\* the change listener of multi_exclusive_init: the box of option target of
\* the group of cell k is toggled
MultiChange(k, target) ==
    /\ KindOf(dom, k) = "multi"
    /\ \E cell \in {multi_exclusive_handle_change(
                        [dom[k] EXCEPT !.value = Toggle(dom[k].value, target)], target)} :
       \E r \in {row_cells_validate([dom EXCEPT ![k] = cell],
                                    row_cells_get(dom, dom[k].row_index))} :
       \E e \in {[Event("change", "") EXCEPT !.code = target,
                                             !.again = dom[k].value # <<>>]} :
           IF r.valid
           THEN \E s \in {table_save(tableType, r.dom, pending_save, last_save_time, now)} :
                   /\ dom' = s.dom
                   /\ toast' = s.toast
                   /\ pending_save' = (pending_save \/ s.result = "sent")
                   /\ posts' = IF s.result = "sent"
                               THEN Append(posts, Post(s, now, last_save_time))
                               ELSE posts
                   /\ ev' = [e EXCEPT !.result = s.result, !.data = s.data]
                   /\ hist' = [hist EXCEPT !.attempt_t = now]
           ELSE /\ dom' = r.dom
                /\ ev' = [e EXCEPT !.result = "row_invalid"]
                /\ UNCHANGED <<toast, pending_save, posts, hist>>
    /\ UNCHANGED <<table_vars, server, last_save_time, now, dynamic_vars>>

NextMulti ==
    \/ Tick
    \/ \E k \in DOMAIN dom : \E target \in {"A", "B", "X"} : MultiChange(k, target)
    \/ \E k \in DOMAIN dom : \E typed \in NumberTexts : InputNumber(k, typed)
    \/ \E k \in DOMAIN dom : KeydownEnter(k)
    \/ \E i \in DOMAIN posts : \E outcome \in SaveOutcomes : SaveResponse(i, outcome)

SpecMulti == InitMulti /\ [][NextMulti]_vars


(***************************************************************************)
(* The save endpoint                                                       *)
(*                                                                         *)
(* Clients POST bodies for a survey and a subtable; the server handles the *)
(* requests that have reached it in any order, one statement each.         *)
(***************************************************************************)
\* requests made in one behaviour
MaxPosts == 3

Clients == {"c1", "c2"}
\* (idgr, subtable)
StoreKeys == {<<"gr1", "A">>, <<"gr1", "B">>, <<"gr2", "A">>}
\* request bodies; the endpoint does not read them
Bodies == {"[]", "{"}

\* b_bdgrobmsp_dane_replace: the blob of the key is replaced by the body
b_bdgrobmsp_dane_replace(store, key, body) == [store EXCEPT ![key] = body]

\* a save endpoint that keeps the blob a key already has
AnkietSubtablePost_keep(srv, p, outcome) ==
    [srv EXCEPT !.store = IF outcome = "ok" /\ srv.store[p.key] = ""
                          THEN b_bdgrobmsp_dane_replace(srv.store, p.key, p.body)
                          ELSE srv.store,
                !.status = IF outcome = "ok" THEN 200 ELSE 500,
                !.log = IF outcome = "exec_error" THEN "error" ELSE "none"]

\* AnkietSubtablePost on request p; outcome is what fails, if anything: the
\* year of the path, the reading of the body, the statement
AnkietSubtablePost(srv, p, outcome) ==
    IF outcome \in {"bad_year", "read_error"}
    THEN [srv EXCEPT !.status = 400, !.log = "none"]
    ELSE IF outcome = "exec_error"
    THEN [srv EXCEPT !.status = 500, !.log = "error"]
    ELSE [srv EXCEPT !.store = b_bdgrobmsp_dane_replace(srv.store, p.key, p.body),
                     !.status = 200, !.log = "none"]

PostOutcomes == {"ok", "bad_year", "read_error", "exec_error"}

\* a page is not part of the behaviour
NoPage ==
    /\ tableType = "" /\ is_dynamic = FALSE /\ is_unique = FALSE
    /\ columns = <<>>
    /\ dom = <<>>
    /\ row_counter = 0 /\ pending_save = FALSE /\ last_save_time = 0
    /\ now = PageLoadTime
    /\ posts = <<>> /\ fetches = <<>>
    /\ toast = NoToast
    /\ loader = [todo |-> <<>>, awaiting |-> -1]
    /\ selector = [text |-> <<>>, open |-> FALSE, hidden |-> {}, index |-> -1, lit |-> {}]
    /\ hist = NoHistory

page_vars == <<table_vars, dom, pending_save, last_save_time, now, posts, dynamic_vars,
               toast, hist>>

InitStore ==
    /\ NoPage
    /\ ev = NoEvent
    /\ \E blob \in {"", "[]"} :
          server = [NoServer EXCEPT !.store = [k \in StoreKeys |-> blob]]

\* a client's POST reaches the server
PostArrives(c, key, body) ==
    /\ server.sent < MaxPosts
    /\ server' = [server EXCEPT !.requests = Append(@, [client |-> c, key |-> key,
                                                         body |-> body]),
                                !.sent = @ + 1]
    /\ ev' = [Event("post", "") EXCEPT !.key = key, !.body = body]
    /\ UNCHANGED page_vars

\* AnkietSubtablePost handles request i
PostHandled(i, outcome) ==
    /\ i \in DOMAIN server.requests
    /\ server' = [AnkietSubtablePost(server, server.requests[i], outcome) EXCEPT
                      !.requests = RemoveAt(server.requests, i)]
    /\ ev' = [Event("AnkietSubtablePost", outcome) EXCEPT
                 !.key = server.requests[i].key, !.body = server.requests[i].body,
                 !.again = server.store[server.requests[i].key]
                               \notin {"", server.requests[i].body}]
    /\ UNCHANGED page_vars

NextStore ==
    \/ \E c \in Clients, key \in StoreKeys, body \in Bodies : PostArrives(c, key, body)
    \/ \E i \in DOMAIN server.requests, outcome \in PostOutcomes : PostHandled(i, outcome)

SpecStore == InitStore /\ [][NextStore]_vars


(***************************************************************************)
(* The Cell Populator                                                      *)
(*                                                                         *)
(* A persisted blob is the text a save POSTed. It is kept as what          *)
(* json.Unmarshal finds in it:                                             *)
(*   empty      the empty text                                             *)
(*   malformed  a text that is not JSON                                    *)
(*   null       the JSON null                                              *)
(*   array      a JSON array; items holds its members                      *)
(*   object     a JSON object; items holds it                              *)
(* A JSON object is a function from its keys to JSON values; a number is   *)
(* in units of 10^-ScaleDigits.                                            *)
(***************************************************************************)
JsonNull == [t |-> "null", n |-> 0, s |-> <<>>]
JsonBool(b) == [t |-> "bool", n |-> IF b THEN 1 ELSE 0, s |-> <<>>]

Blob(shape, items) == [shape |-> shape, items |-> items]

\* whether a member of a JSON array is an object
IsObject(item) == "t" \notin DOMAIN item

\* strings.HasSuffix(k, "_Kod") on the names of the model
HasSuffixKod(name) == name \in {"Wartosc_Kod", "Inny_Kod"}

\* strings.Contains(name, "_Kod") on the names of the model
ContainsKod(name) == name \in {"Wartosc_Kod", "Inny_Kod", "Wartosc_Kod_Nazwa"}

\* strings.Contains(name, "_Wyszczegolnienie") on the names of the model
ContainsWyszczegolnienie(name) == name = "Wartosc_Wyszczegolnienie"

\* b_kody_tytul_where_kod: the title of a code
KodyTytul(code) == <<"t">> \o CodeText(code)

\* digits without their trailing zeros
RECURSIVE StripZeros(_)
StripZeros(ds) ==
    IF ds # <<>> /\ ds[Len(ds)] = "0" THEN StripZeros(SubSeq(ds, 1, Len(ds) - 1)) ELSE ds

\* formatValue with the fraction of a number dropped
formatValue_integer(v) ==
    IF v.t = "number"
    THEN (IF v.n < 0 THEN <<"-">> ELSE <<>>)
         \o NatToText((IF v.n < 0 THEN 0 - v.n ELSE v.n) \div Scale)
    ELSE v.s

\* formatValue
formatValue(v) ==
    LET mag == IF v.n < 0 THEN 0 - v.n ELSE v.n
        sign == IF v.n < 0 THEN <<"-">> ELSE <<>>
    IN  CASE v.t = "string" -> v.s
          [] v.t = "number" ->
                IF mag % Scale = 0
                THEN sign \o NatToText(mag \div Scale)
                ELSE sign \o NatToText(mag \div Scale) \o <<".">>
                          \o StripZeros(FractionText(mag % Scale, ScaleDigits))
          [] v.t = "null" -> <<>>
          [] OTHER -> IF v.n = 1 THEN <<"t", "r", "u", "e">>
                      ELSE <<"f", "a", "l", "s", "e">>

\* json.Unmarshal into []map[string]any and into map[string]any: whether it fails
UnmarshalArrayFails(jsonData) ==
    \/ jsonData.shape \in {"malformed", "object"}
    \/ jsonData.shape = "array"
          /\ \E i \in DOMAIN jsonData.items :
                 ~IsObject(jsonData.items[i]) /\ jsonData.items[i] # JsonNull

UnmarshalObjectFails(jsonData) == jsonData.shape \in {"malformed", "array"}

\* PopulateCellsFromArray: the lookups the first loop can build. The keys of an
\* object are visited in any order, so of two keys ending in _Kod either is
\* the one found; a later object replaces an earlier one of the same code.
RECURSIVE Lookups(_)
Lookups(dataArray) ==
    IF dataArray = <<>> THEN {<<>>}
    ELSE LET item    == dataArray[Len(dataArray)]
             kodKeys == IF IsObject(item) THEN {k \in DOMAIN item : HasSuffixKod(k)}
                        ELSE {}
             before  == Lookups(SubSeq(dataArray, 1, Len(dataArray) - 1))
         IN  IF kodKeys = {} THEN before
             ELSE UNION {{IF item[k].t = "string" THEN (item[k].s :> item) @@ l ELSE l
                             : l \in before} : k \in kodKeys}

\* the second loop of PopulateCellsFromArray on one row; data is the object
\* to copy from
PopulateRow(row, data) ==
    [row EXCEPT !.Cells = [j \in DOMAIN row.Cells |->
        IF row.Cells[j].Name \in DOMAIN data
        THEN [row.Cells[j] EXCEPT !.Value = formatValue(data[row.Cells[j].Name])]
        ELSE row.Cells[j]]]

\* a populator that copies the first object into every row
PopulateCellsFromArray_any_row(rows, jsonData) ==
    IF jsonData.shape # "array" \/ jsonData.items = <<>> \/ UnmarshalArrayFails(jsonData)
    THEN {[rows |-> rows, err |-> jsonData.shape # "empty" /\ UnmarshalArrayFails(jsonData)]}
    ELSE {[rows |-> [i \in DOMAIN rows |-> PopulateRow(rows[i], jsonData.items[1])],
           err  |-> FALSE]}

\* PopulateCellsFromArray: the rows and the error it can leave
PopulateCellsFromArray(rows, jsonData) ==
    IF jsonData.shape = "empty" THEN {[rows |-> rows, err |-> FALSE]}
    ELSE IF UnmarshalArrayFails(jsonData) THEN {[rows |-> rows, err |-> TRUE]}
    ELSE {[rows |-> [i \in DOMAIN rows |->
                        IF CodeText(rows[i].Code) \in DOMAIN lookup
                        THEN PopulateRow(rows[i], lookup[CodeText(rows[i].Code)])
                        ELSE rows[i]],
           err  |-> FALSE] : lookup \in Lookups(jsonData.items)}

\* PopulateCellsFromObject
PopulateCellsFromObject(rows, jsonData) ==
    IF jsonData.shape = "empty" THEN {[rows |-> rows, err |-> FALSE]}
    ELSE IF UnmarshalObjectFails(jsonData) THEN {[rows |-> rows, err |-> TRUE]}
    ELSE IF jsonData.shape = "null" THEN {[rows |-> rows, err |-> FALSE]}
    ELSE {[rows |-> [i \in DOMAIN rows |-> PopulateRow(rows[i], jsonData.items[1])],
           err  |-> FALSE]}


(***************************************************************************)
(* The schema resolver                                                     *)
(*                                                                         *)
(* The metadata of the requested subtable: its layout, its columns (name   *)
(* and required flag), its codes and its block records (column, code).     *)
(* A Cell names its column by its place among the columns.                 *)
(***************************************************************************)
TableColumn(name, required) == [Name |-> name, Required |-> required]

TableCell(name, column, required) ==
    [Name |-> name, Column |-> column, Value |-> <<>>, Required |-> required,
     Editable |-> 1, Blocked |-> FALSE]

\* a Table Description with nothing in it
NoTable == [Type |-> "", Columns |-> <<>>, Rows |-> <<>>, Data |-> Blob("empty", <<>>)]

\* the lookups of AnkietSubtableGet that can fail, in the order it makes them
SubtableLookups == {"user", "year", "tabs", "subtabs", "subtable", "columns",
                    "codes_query", "codes_scan", "dane", "blocks"}

\* AnkietSubtableGet and AnkietRowGet: the Cell of a column in a row of a code
HorizontalCell(columns_, i, code, blocked) ==
    LET cell == [TableCell(columns_[i].Name, i, columns_[i].Required) EXCEPT
                    !.Blocked = blocked]
    IN  IF ContainsKod(cell.Name)
        THEN [cell EXCEPT !.Editable = 0, !.Value = CodeText(code)]
        ELSE cell

\* AnkietRowGet: the title of the code in a cell of a _Wyszczegolnienie column
TitleCell(cell, code) ==
    IF ContainsWyszczegolnienie(cell.Name) THEN [cell EXCEPT !.Value = KodyTytul(code)]
    ELSE cell

\* AnkietSubtableGet, HORIZONTAL_STATIC_UNIQUE: the rows before they are populated
StaticRows(meta) ==
    [r \in DOMAIN meta.codes |->
        [Code |-> meta.codes[r], Index |-> 0,
         Cells |-> [i \in DOMAIN meta.columns |->
                      HorizontalCell(meta.columns, i, meta.codes[r],
                                     <<meta.columns[i].Name, meta.codes[r]>> \in meta.blocks)]]]

\* AnkietSubtableGet, VERTICAL_STATIC_UNIQUE: one row of one Cell per column
VerticalRows(meta) ==
    [i \in DOMAIN meta.columns |->
        [Code |-> "", Index |-> 0,
         Cells |-> <<[Name |-> meta.columns[i].Name, Column |-> i, Value |-> <<>>,
                      Required |-> 0, Editable |-> 1, Blocked |-> FALSE]>>]]

\* AnkietSubtableGet, the dynamic layouts: the code catalogue, rows without cells
CatalogueRows(meta) ==
    [r \in DOMAIN meta.codes |-> [Code |-> meta.codes[r], Index |-> 0, Cells |-> <<>>]]

\* what AnkietSubtableGet answers: the Table Description it renders, the status
\* it writes (0 when it returns without writing) and the level it logs at
Answer(table, status, log) == [table |-> table, status |-> status, log |-> log]

\* a populator's error left unlogged
PopulateLog_silent(err, log) == log

\* the log level after a populator has returned err
PopulateLog(err, log) == IF err THEN "warn" ELSE log

\* AnkietSubtableGet for the subtable of metadata meta and persisted blob dane;
\* fail is the lookup that fails, if any
AnkietSubtableGet(meta, dane, fail) ==
    LET jsonData == IF fail = "dane" THEN Blob("empty", <<>>) ELSE dane
        log      == IF fail = "dane" THEN "warn" ELSE "none"
        Table(rows, data) == [Type |-> meta.type, Columns |-> meta.columns,
                              Rows |-> rows, Data |-> data]
    IN  IF fail = "user" THEN {Answer(NoTable, 500, "error")}
        ELSE IF fail \in {"year", "tabs", "subtabs", "subtable", "columns",
                          "codes_query", "codes_scan"}
        THEN {Answer(NoTable, 403, "error")}
        ELSE IF meta.type \in {"HORIZONTAL_DYNAMIC_DUPLICABLE", "HORIZONTAL_DYNAMIC_UNIQUE"}
        THEN {Answer(Table(CatalogueRows(meta), jsonData), 200, log)}
        ELSE IF meta.type = "HORIZONTAL_STATIC_UNIQUE"
        THEN IF fail = "blocks" THEN {Answer(NoTable, 500, "error")}
             ELSE {Answer(Table(p.rows, NoTable.Data), 200, PopulateLog(p.err, log))
                      : p \in PopulateCellsFromArray(StaticRows(meta), jsonData)}
        ELSE IF meta.type = "VERTICAL_STATIC_UNIQUE"
        THEN {Answer(Table(p.rows, NoTable.Data), 200, PopulateLog(p.err, log))
                 : p \in PopulateCellsFromObject(VerticalRows(meta), jsonData)}
        ELSE {Answer(NoTable, 0, "error")}

\* AnkietRowGet: the row it renders for a code and an index, and its status
RowLookups == {"index", "year", "columns", "blocks"}

AnkietRowGet(meta, code, index, fail) ==
    IF fail \in {"index", "year", "columns"} THEN [row |-> <<>>, status |-> 403]
    ELSE IF fail = "blocks" THEN [row |-> <<>>, status |-> 500]
    ELSE [row |-> <<[Code |-> code, Index |-> index,
                     Cells |-> [i \in DOMAIN meta.columns |->
                                  TitleCell(HorizontalCell(meta.columns, i, code,
                                      <<meta.columns[i].Name, code>> \in meta.blocks),
                                      code)]]>>,
          status |-> 200]


\* TableSysBTabeleGet: the description of the system table b_tabele, whose rows
\* are tabele; fail is what fails, if anything
SYSTEM_DEFINITON == "SYSTEM_DEFINITION"

SysColumns == [i \in 1..6 |->
                 TableColumn(<<"Tabela", "Tytul", "Lp", "Symbol", "Opis", "Uwagi">>[i], 0)]

SysLookups == {"query", "scan", "rows_err"}

TableSysBTabeleGet(tabele, fail) ==
    LET tableSchema == [Type |-> SYSTEM_DEFINITON, Columns |-> SysColumns, Rows |-> <<>>,
                        Data |-> NoTable.Data]
        names == <<"tabela", "tytul", "lp", "symbol", "opis", "uwagi">>
    IN  IF fail \in {"query", "rows_err"} THEN tableSchema
        ELSE IF fail = "scan" /\ tabele # <<>> THEN NoTable
        ELSE [tableSchema EXCEPT !.Rows =
                [r \in DOMAIN tabele |->
                    [Code |-> "", Index |-> 0,
                     Cells |-> [i \in 1..6 |->
                        [Name |-> names[i], Column |-> i, Value |-> tabele[r][i],
                         Required |-> 0, Editable |-> 1, Blocked |-> FALSE]]]]]

(***************************************************************************)
(* Pages resolved from metadata and persisted data                         *)
(***************************************************************************)
\* the survey and subtable of the pages
PageKey == <<"gr1", "A">>

\* 12.5 and -0.5
TwelveAndAHalf == 125 * (Scale \div 10)
MinusHalf == 0 - 5 * (Scale \div 10)

ScenarioA == Blob("array", << ("Wartosc_Kod" :> JsonString(<<"0", "1">>))
                              @@ ("Wartosc_Liczba" :> JsonNumber(TwelveAndAHalf)) >>)

\* persisted blobs
PersistedBlobs ==
    { Blob("empty", <<>>), Blob("malformed", <<>>), Blob("null", <<>>),
      Blob("array", <<>>),
      ScenarioA,
      Blob("array", << ("Wartosc_Kod" :> JsonString(<<"0", "2">>))
                          @@ ("Wartosc_Liczba" :> JsonNumber(3 * Scale)),
                       ("Wartosc_Kod" :> JsonString(<<"0", "1">>))
                          @@ ("Wartosc_Liczba" :> JsonNull) >>),
      Blob("array", << ("Wartosc_Kod" :> JsonString(<<"0", "3">>))
                          @@ ("Wartosc_Liczba" :> JsonNumber(7 * Scale)) >>),
      Blob("array", << "Wartosc_Liczba" :> JsonNumber(5 * Scale) >>),
      Blob("array", << ("Wartosc_Kod" :> JsonNumber(Scale))
                          @@ ("Wartosc_Liczba" :> JsonNumber(5 * Scale)) >>),
      Blob("array", << ("Wartosc_Kod" :> JsonString(<<"0", "1">>))
                          @@ ("Inny_Kod" :> JsonString(<<"0", "2">>))
                          @@ ("Wartosc_Liczba" :> JsonNumber(MinusHalf)) >>),
      Blob("array", << "Wartosc_Kod" :> JsonString(<<"0", "1">>), JsonNumber(Scale) >>),
      Blob("array", << ("Wartosc_Kod" :> JsonString(<<"0", "2">>))
                          @@ ("Wartosc_Liczba" :> JsonNumber(3 * Scale)),
                       JsonNull,
                       ("Wartosc_Kod" :> JsonString(<<"0", "1">>))
                          @@ ("Wartosc_Liczba" :> JsonNumber(7 * Scale)) >>),
      Blob("object", << ("Wartosc_Liczba" :> JsonNumber(TwelveAndAHalf))
                           @@ ("Wartosc_Opis" :> JsonString(<<"a">>)) >>),
      Blob("object", << "Wartosc_Opis" :> JsonBool(TRUE) >>) }

Layouts == {"HORIZONTAL_DYNAMIC_DUPLICABLE", "HORIZONTAL_DYNAMIC_UNIQUE",
            "HORIZONTAL_STATIC_UNIQUE", "VERTICAL_STATIC_UNIQUE", "PKD_STATIC_UNIQUE"}

\* the rows of b_tabele
Tabele == << <<<<"A">>, <<"a">>, <<"1">>, <<"A">>, <<>>, <<>>>>,
             <<<<"B">>, <<"b">>, <<"2">>, <<"B">>, <<>>, <<>>>> >>

\* TMPL_DYNAMIC_ROW: the cells of the fragment rendered for a row
TemplateRow(row) ==
    [j \in DOMAIN row.Cells |->
        Cell(row.Index, row.Code, j, row.Cells[j].Value, row.Cells[j].Editable = 0,
             row.Cells[j].Required = 1)]

\* a record of the persisted array as dynamic_table_load_existing reads it
RecordOf(item) ==
    Record(IF item["Wartosc_Kod"].s = <<"0", "1">> THEN "01" ELSE "02",
           IF "Wartosc_Liczba" \in DOMAIN item /\ item["Wartosc_Liczba"].t = "number"
           THEN Num(item["Wartosc_Liczba"].n) ELSE Null)

\* the members of the array the loop of dynamic_table_load_existing reaches:
\* rowData[kodKey] of a member that is null throws, which ends the loop
Visited(items) ==
    With({i \in DOMAIN items : items[i] = JsonNull},
         LAMBDA nulls : IF nulls = {} THEN items
                        ELSE SubSeq(items, 1, CHOOSE i \in nulls : \A j \in nulls : i <= j))

\* the members dynamic_table_load_existing stops at, when the blob is an array
\* whose first object has a key ending in _Kod: the records with a code, which
\* it adds rows for, and the null it throws at
Loadable(data) ==
    IF data.shape = "array" /\ data.items # <<>> /\ IsObject(data.items[1])
          /\ "Wartosc_Kod" \in DOMAIN data.items[1]
    THEN SelectSeq(Visited(data.items),
             LAMBDA item : \/ item = JsonNull
                           \/ /\ IsObject(item) /\ "Wartosc_Kod" \in DOMAIN item
                              /\ item["Wartosc_Kod"].t = "string"
                              /\ item["Wartosc_Kod"].s \in {<<"0", "1">>, <<"0", "2">>})
    ELSE <<>>

InitResolve ==
    /\ \E type \in Layouts, required \in {0, 1}, dane \in PersistedBlobs :
       \E blocks \in SUBSET {<<"Wartosc_Liczba", "01">>} :
          /\ tableType = type
          /\ columns = IF type = "VERTICAL_STATIC_UNIQUE" THEN VerticalColumns
                       ELSE HorizontalColumns
          /\ server = [NoServer EXCEPT
                !.store = [k \in {PageKey} |-> dane],
                !.table = NoTable,
                !.meta = [type |-> type,
                          columns |-> IF type = "VERTICAL_STATIC_UNIQUE"
                                      THEN <<TableColumn("Wartosc_Liczba", required),
                                             TableColumn("Wartosc_Opis", 0)>>
                                      ELSE <<TableColumn("Wartosc_Kod", 0),
                                             TableColumn("Wartosc_Liczba", required)>>,
                          codes |-> StaticCodes,
                          blocks |-> blocks]]
    /\ is_dynamic = (tableType \in {"HORIZONTAL_DYNAMIC_UNIQUE",
                                    "HORIZONTAL_DYNAMIC_DUPLICABLE"})
    /\ is_unique = (tableType = "HORIZONTAL_DYNAMIC_UNIQUE")
    /\ dom = <<>>
    /\ row_counter = 0 /\ pending_save = FALSE /\ last_save_time = 0
    /\ now = PageLoadTime
    /\ posts = <<>> /\ fetches = <<>>
    /\ toast = NoToast
    /\ loader = [todo |-> <<>>, awaiting |-> -1]
    /\ selector = [text |-> <<>>, open |-> FALSE, hidden |-> {}, index |-> -1, lit |-> {}]
    /\ ev = NoEvent
    /\ hist = NoHistory

resolve_vars == <<table_vars, pending_save, last_save_time, now, posts, fetches,
                  selector, toast, hist>>

\* a GET of the subtable's page: AnkietSubtableGet, and table_init on the page
\* when one is rendered
SubtableGet(fail) ==
    /\ \E a \in AnkietSubtableGet(server.meta, server.store[PageKey], fail) :
          /\ server' = [server EXCEPT !.table = a.table, !.status = a.status,
                                      !.log = a.log]
          /\ loader' = [todo |-> IF is_dynamic /\ a.status = 200
                                 THEN Loadable(a.table.Data) ELSE <<>>,
                        awaiting |-> -1]
    /\ dom' = <<>>
    /\ row_counter' = 0
    /\ ev' = Event("AnkietSubtableGet", fail)
    /\ UNCHANGED resolve_vars

\* dynamic_table_load_existing, one record: the row fragment is fetched
\* (AnkietRowGet), inserted and populated
LoadRow ==
    /\ loader.todo # <<>>
    /\ Head(loader.todo) # JsonNull
    /\ \E a \in {AnkietRowGet(server.meta, RecordOf(Head(loader.todo)).Wartosc_Kod,
                              row_counter, "none")} :
       \E fragment \in {TemplateRow(a.row[1])} :
          dom' = dom \o populate_cells_from_data(fragment, DOMAIN fragment,
                                                 RecordOf(Head(loader.todo)))
    /\ row_counter' = row_counter + 1
    /\ loader' = [loader EXCEPT !.todo = Tail(@)]
    /\ ev' = Event("load_row", "")
    /\ UNCHANGED <<server, resolve_vars>>

\* dynamic_table_load_existing at a member that is null: the TypeError of
\* rowData[kodKey] leaves the async function, so its promise is rejected;
\* table_init does not await it
LoadThrows ==
    /\ loader.todo # <<>>
    /\ Head(loader.todo) = JsonNull
    /\ loader' = [loader EXCEPT !.todo = <<>>]
    /\ ev' = Event("load_row", "rejected")
    /\ UNCHANGED <<server, dom, row_counter, resolve_vars>>

\* a GET of a row fragment: AnkietRowGet
RowGet(code, index, fail) ==
    /\ \E a \in {AnkietRowGet(server.meta, code, index, fail)} :
          server' = [server EXCEPT !.table = [NoTable EXCEPT !.Rows = a.row],
                                   !.status = a.status,
                                   !.log = IF a.status = 200 THEN "none" ELSE "error"]
    /\ ev' = [Event("AnkietRowGet", fail) EXCEPT !.code = code]
    /\ UNCHANGED <<dom, row_counter, loader, resolve_vars>>

\* a GET of the system table b_tabele: MetodykaGet renders what
\* TableSysBTabeleGet returns
SysTableGet(fail) ==
    /\ server' = [server EXCEPT !.table = TableSysBTabeleGet(Tabele, fail),
                                !.status = 200,
                                !.log = IF fail = "none" THEN "none" ELSE "error"]
    /\ ev' = Event("TableSysBTabeleGet", fail)
    /\ UNCHANGED <<dom, row_counter, loader, resolve_vars>>

NextResolve ==
    \/ \E fail \in SubtableLookups \cup {"none"} : SubtableGet(fail)
    \/ LoadRow
    \/ LoadThrows
    \/ \E code \in Codes, index \in 0..1, fail \in RowLookups \cup {"none"} :
          RowGet(code, index, fail)
    \/ \E fail \in SysLookups \cup {"none"} : SysTableGet(fail)

SpecResolve == InitResolve /\ [][NextResolve]_vars


(***************************************************************************)
(* Routes                                                                  *)
(*                                                                         *)
(* A path is the sequence of its segments, and a trailing slash is an      *)
(* empty last segment: /app/2025/ is <<"app", "2025", "">>, / is <<"">>.   *)
(* A pattern is written the same way, so a pattern that ends in a slash    *)
(* (it matches the whole subtree) ends in "".                              *)
(***************************************************************************)
MaxRequests == 3

Wildcards == {"{year}", "{idgr}", "{table}", "{subtable}", "{code}", "{index}"}

\* the patterns Routes registers on the main mux, each with its chain of
\* middleware and its handler
main == <<
    [method |-> "GET",  segs |-> <<"{$}">>,      chain |-> "",       handler |-> "LoginGet"],
    [method |-> "POST", segs |-> <<"login">>,    chain |-> "",       handler |-> "LoginPost"],
    [method |-> "GET",  segs |-> <<"logout">>,   chain |-> "",       handler |-> "LogoutGet"],
    [method |-> "GET",  segs |-> <<"app", "">>,  chain |-> "Logged", handler |-> "AppGet"],
    [method |-> "GET",  segs |-> <<"app", "{year}", "">>,
     chain |-> "Logged", handler |-> "YearGet"],
    [method |-> "GET",  segs |-> <<"app", "{year}", "bdgr", "lista-ankiet", "">>,
     chain |-> "Logged", handler |-> "ListGRGet"],
    [method |-> "GET",  segs |-> <<"app", "{year}", "bdgr", "lista-ankiet", "{idgr}">>,
     chain |-> "AccessIdGR", handler |-> "AnkietIdGRGet"],
    [method |-> "GET",
     segs |-> <<"app", "{year}", "bdgr", "lista-ankiet", "{idgr}", "{table}", "">>,
     chain |-> "AccessIdGR", handler |-> "AnkietTableGet"],
    [method |-> "GET",
     segs |-> <<"app", "{year}", "bdgr", "lista-ankiet", "{idgr}", "{table}",
                "{subtable}", "">>,
     chain |-> "AccessIdGR", handler |-> "AnkietSubtableGet"],
    [method |-> "POST",
     segs |-> <<"app", "{year}", "bdgr", "lista-ankiet", "{idgr}", "{table}",
                "{subtable}", "">>,
     chain |-> "AccessIdGR", handler |-> "AnkietSubtablePost"],
    [method |-> "GET",
     segs |-> <<"app", "{year}", "bdgr", "lista-ankiet", "{idgr}", "{table}",
                "{subtable}", "{code}", "{index}">>,
     chain |-> "AccessIdGR", handler |-> "AnkietRowGet"] >>

\* http.ServeMux: a wildcard matches one segment that is not empty, a pattern
\* that ends in a slash matches every path below it, {$} matches the slash alone
SegmentMatches(p, s) == IF p \in Wildcards THEN s # "" ELSE p = s
IsSubtree(segs) == segs[Len(segs)] = ""
PathMatches(segs, path) ==
    IF segs = <<"{$}">> THEN path = <<"">>
    ELSE IF IsSubtree(segs)
         THEN /\ Len(path) >= Len(segs)
              /\ \A i \in 1..(Len(segs) - 1) : SegmentMatches(segs[i], path[i])
         ELSE /\ Len(path) = Len(segs)
              /\ \A i \in 1..Len(segs) : SegmentMatches(segs[i], path[i])

\* of the patterns that match, the most specific one serves: the patterns of
\* main are nested, so it is the longest, and a pattern without the trailing
\* slash before the subtree of the same length
Specificity(i) == 2 * Len(main[i].segs) + (IF IsSubtree(main[i].segs) THEN 0 ELSE 1)
Match(method, path) ==
    With({i \in DOMAIN main : main[i].method = method /\ PathMatches(main[i].segs, path)},
         LAMBDA hits : IF hits = {} THEN 0
                       ELSE CHOOSE i \in hits :
                                \A j \in hits : Specificity(i) >= Specificity(j))

\* a subtree pattern matches a path exactly when the path is the subtree's root
ExactMatch(i, path) ==
    /\ i # 0
    /\ \/ ~IsSubtree(main[i].segs)
       \/ path[Len(path)] = "" /\ Len(path) = Len(main[i].segs)

\* ServeMux.ServeHTTP on main: the index of the pattern that serves, or the
\* status the mux answers itself (301 to the path with a slash when that one
\* matches exactly, 405 when only another method matches, else 404)
Methods == {"GET", "POST"}
ServeMux(method, path) ==
    With(Match(method, path), LAMBDA i :
        IF /\ ~ExactMatch(i, path)
           /\ path[Len(path)] # ""
           /\ ExactMatch(Match(method, Append(path, "")), Append(path, ""))
        THEN [pattern |-> 0, status |-> 301]
        ELSE IF i # 0 THEN [pattern |-> i, status |-> 0]
        ELSE IF \E m \in Methods \ {method} : Match(m, path) # 0
             THEN [pattern |-> 0, status |-> 405]
             ELSE [pattern |-> 0, status |-> 404])

\* what can go wrong in a handler: a query of the main database fails
\* ("query"), the credentials posted do not match ("mismatch")
Failures(handler) ==
    CASE handler = "LoginPost" -> {"none", "query", "mismatch"}
      [] handler \in {"AppGet", "YearGet"} -> {"none", "query"}
      [] OTHER -> {"none"}

\* the handlers, as the status they answer and the session they leave.
\* YearGet redirects before it reports the error, so the redirect is the
\* status that is sent.
LoginGet(session) == [status |-> IF session # "" THEN 303 ELSE 200, session |-> session]
LoginPost(session, fail) ==
    [status |-> 303, session |-> IF fail = "none" THEN "Adm" ELSE session]
LogoutGet(session) == [status |-> 303, session |-> ""]
AppGet(session, fail) ==
    [status |-> IF fail = "none" THEN 200 ELSE 500, session |-> session]
YearGet(session, fail) ==
    [status |-> IF fail = "none" THEN 200 ELSE 303, session |-> session]

\* MiddleLoged: without a user in the session the request is redirected to /
MiddleLoged(session, next) ==
    IF session = "" THEN [status |-> 303, session |-> session] ELSE next

Handled == {"LoginGet", "LoginPost", "LogoutGet", "AppGet", "YearGet"}
Handler(handler, session, fail) ==
    CASE handler = "LoginGet"  -> LoginGet(session)
      [] handler = "LoginPost" -> LoginPost(session, fail)
      [] handler = "LogoutGet" -> LogoutGet(session)
      [] handler = "AppGet"    -> AppGet(session, fail)
      [] handler = "YearGet"   -> YearGet(session, fail)

\* the handler Routes returns, serving one request
Routes(session, method, path, fail) ==
    With(ServeMux(method, path), LAMBDA m :
        IF m.pattern = 0
        THEN [status |-> m.status, session |-> session, handler |-> ""]
        ELSE With(Handler(main[m.pattern].handler, session, fail), LAMBDA a :
                 With(IF main[m.pattern].chain = "" THEN a ELSE MiddleLoged(session, a),
                      LAMBDA b : [status |-> b.status, session |-> b.session,
                                  handler |-> main[m.pattern].handler])))

(***************************************************************************)
(* Requests routed (SpecRoutes): a client, at first not logged in, sends   *)
(* requests to the handler Routes returns.                                 *)
(***************************************************************************)
Year == "2025"
Formularze == <<"app", Year, "bdgr", "metodyka", "formularze">>
Paths == { <<"">>, <<"login">>, <<"logout">>, <<"app">>, <<"app", "">>,
           <<"app", Year>>, <<"app", Year, "">>, <<"bdgr">>,
           Formularze, Append(Formularze, "") }

InitRoutes ==
    /\ NoPage
    /\ ev = NoEvent
    /\ server = NoServer

Request(method, path) ==
    /\ server.sent < MaxRequests
    /\ \E m \in {ServeMux(method, path)} :
          /\ m.pattern # 0 => main[m.pattern].handler \in Handled
          /\ \E fail \in (IF m.pattern = 0 THEN {"none"}
                          ELSE Failures(main[m.pattern].handler)) :
             \E a \in {Routes(server.session, method, path, fail)} :
                /\ server' = [server EXCEPT !.status = a.status,
                                            !.session = a.session,
                                            !.sent = @ + 1]
                /\ ev' = [Event(method, a.handler) EXCEPT !.key = path, !.code = fail]
    /\ UNCHANGED page_vars

NextRoutes == \E method \in Methods, path \in Paths : Request(method, path)

SpecRoutes == InitRoutes /\ [][NextRoutes]_vars

(***************************************************************************)
(* Properties of saving (SpecSave)                                         *)
(***************************************************************************)
\* a step in which a handler calls table_save
SaveAttemptStep == now' = now /\ ev'.op = "table_save"

\* what the user has put into the inputs of the grid
FieldText(d, k) == IF KindOf(d, k) \in {"enum", "multi"} THEN d[k].hidden ELSE d[k].value
FieldValues(d) == [k \in DOMAIN d |-> FieldText(d, k)]

IsBlankText(text) == \A i \in DOMAIN text : IsSpace(text[i])

\* a row holds user data when one of its editable inputs is not blank
RowHasUserData(d, cells) ==
    \E k \in cells : ~d[k].readonly /\ ~IsBlankText(FieldText(d, k))

\* the constraints of the field of an editable input: presence when required,
\* a number within its minimum and maximum, a text of the shape of its format.
\* A number input counts as blank when it holds nothing but whitespace and the
\* punctuation of a number (string_is_blank).
FieldSatisfies(d, k) ==
    LET col   == columns[d[k].col]
        text  == FieldText(d, k)
        n     == number_value_parse(text)
        blank == IF col.kind = "number" THEN string_is_blank(text) ELSE IsBlankText(text)
    IN  /\ d[k].required => ~blank
        /\ col.kind = "number" /\ ~blank =>
              /\ ~n.null
              /\ col.min.null \/ n.v >= col.min.v
              /\ col.max.null \/ n.v <= col.max.v
        /\ col.kind = "string" /\ Includes(col.format, "#") /\ text # <<>> =>
              MatchesDashPattern(text)

\* every row that holds user data satisfies the constraints of all its fields
ConstraintsHold(d) ==
    \A r \in all_row_indices_get(d) :
        RowHasUserData(d, row_cells_get(d, r)) =>
            \A k \in row_cells_get(d, r) : ~d[k].readonly => FieldSatisfies(d, k)

\* a payload with nothing in it: an empty array, an object without keys
PayloadHasNothing(data) ==
    \/ data.shape = "array" /\ data.items = <<>>
    \/ data.shape = "object" /\ DOMAIN data.items[1] = {}

\* a POST or an acknowledged save whose attempt was made less than
\* SAVE_COOLDOWN_MS before now
LiveSaveNear ==
    \/ Within(hist.acked_t, now)
    \/ \E i \in DOMAIN posts : Within(posts[i].started, now)

\* C1: at most one save POST is outstanding at any time; a table_save called
\* while a save is pending issues no POST, and the POSTs outstanding after any
\* step taken while a save is pending are among those outstanding before it:
\* the call is not queued and replayed.
C1_SingleOutstandingSave ==
    [][/\ Len(posts') <= 1
       /\ pending_save =>
            \A i \in DOMAIN posts' : \E j \in DOMAIN posts : posts'[i] = posts[j]]_vars

\* a table_save was called after the POST of a pending save had been sent, and
\* that POST is still the only one outstanding
C1_Witness ==
    /\ ev.op = "table_save" /\ ev.result = "pending"
    /\ pending_save /\ Len(posts) = 1
    /\ hist.attempt_t > posts[1].started

\* C2 as stated: a save attempt less than SAVE_COOLDOWN_MS after the previous
\* attempt issues no POST and leaves the field values, pending_save and
\* last_save_time as they were.
C2_SecondAttemptRejected ==
    [][SaveAttemptStep /\ Within(hist.attempt_t, now) =>
          /\ posts' = posts
          /\ FieldValues(dom') = FieldValues(dom)
          /\ pending_save' = pending_save
          /\ last_save_time' = last_save_time]_vars

\* C2, amended: a save attempt less than SAVE_COOLDOWN_MS after an attempt whose
\* POST was acknowledged or is still awaiting its response issues no POST, shows
\* at most the cooldown warning and leaves the field values, pending_save and
\* last_save_time as they were.
C2_AttemptAfterLiveSaveRejected ==
    [][SaveAttemptStep /\ LiveSaveNear =>
          /\ posts' = posts
          /\ toast'.type \in {"none", "warning"}
          /\ FieldValues(dom') = FieldValues(dom)
          /\ pending_save' = pending_save
          /\ last_save_time' = last_save_time]_vars

\* a save attempt was made within the cooldown of an acknowledged save, after
\* its response, and got the cooldown warning
C2_Witness ==
    /\ ev.op = "table_save" /\ ev.near /\ ev.near_live
    /\ ~pending_save /\ posts = <<>>
    /\ toast.msg = "cooldown"
    /\ now - last_save_time < SAVE_COOLDOWN_MS

\* C3: after the response of a failed POST (a network error or a status that
\* is not 2xx) an error toast is shown, last_save_time has the value the
\* attempt found, and pending_save is false.
C3_FailedSave ==
    ev.op = "save_response" /\ ev.result # "ok" =>
        /\ toast.type = "error"
        /\ last_save_time = ev.lst0
        /\ ~pending_save

\* a POST sent after an earlier acknowledged save has failed, later than it was sent
C3_Witness ==
    /\ ev.op = "save_response" /\ ev.result \in {"http_error", "network_error"}
    /\ ev.lst0 > 0 /\ now > ev.lst0
    /\ last_save_time = ev.lst0
    /\ toast = Toast("error", "save_error") /\ ~pending_save

\* C8 as stated: table_save issues a POST only when every row with data
\* satisfies all its field constraints, and when some row with data does not,
\* it issues no POST and shows a toast.
C8_InvalidSaveShowsToast ==
    [][SaveAttemptStep =>
          /\ posts' # posts => ConstraintsHold(dom')
          /\ ~ConstraintsHold(dom') => posts' = posts /\ toast'.type # "none"]_vars

\* C8, amended: table_save issues a POST only when every row with data
\* satisfies all its field constraints; when some row with data does not, it
\* issues no POST and, unless a save is pending, shows a toast.
C8_InvalidSaveNotSent ==
    [][SaveAttemptStep =>
          /\ posts' # posts => ConstraintsHold(dom')
          /\ ~ConstraintsHold(dom') =>
                /\ posts' = posts
                /\ ~pending_save => toast'.type # "none"]_vars

\* table_save was called with no save pending and the cooldown over, from a
\* valid row while another row with data has a failing field: the form error
C8_Witness ==
    /\ ev.op = "table_save" /\ ~ConstraintsHold(dom)
    /\ ~pending_save /\ posts = <<>>
    /\ now - last_save_time >= SAVE_COOLDOWN_MS
    /\ toast = Toast("error", "form_errors")

\* C9: a table_save that gets as far as serializing (no save pending, the
\* cooldown over, the constraints satisfied) and serializes an empty payload
\* issues no POST and shows a warning toast; no POST carries an empty payload.
C9_EmptyPayloadRejected ==
    [][/\ \A i \in DOMAIN posts' : ~PayloadHasNothing(posts'[i].body)
       /\ SaveAttemptStep /\ ~pending_save /\ now - last_save_time >= SAVE_COOLDOWN_MS
              /\ ConstraintsHold(dom') /\ PayloadHasNothing(Payload(tableType, dom')) =>
            posts' = posts /\ toast'.type = "warning"]_vars

\* table_save was called on a vertical grid in which whitespace was typed and
\* nothing else: the no-data warning, no POST
C9_Witness ==
    /\ ev.op = "table_save" /\ ev.result = "empty"
    /\ tableType = "VERTICAL_STATIC_UNIQUE"
    /\ \E k \in DOMAIN dom : dom[k].value # <<>>
    /\ PayloadHasNothing(Payload(tableType, dom))
    /\ toast = Toast("warning", "no_data") /\ posts = <<>>

(***************************************************************************)
(* Properties of the row provisioner (SpecRows)                            *)
(***************************************************************************)
\* the row indices of the rows of a code
RowsOfCode(d, code) == {d[k].row_index : k \in {j \in DOMAIN d : d[j].row_code = code}}

\* C4 as stated: a grid of type HORIZONTAL_DYNAMIC_UNIQUE never holds more
\* than one row of a code.
C4_OneRowPerCode ==
    is_unique => \A code \in Codes : Cardinality(RowsOfCode(dom, code)) <= 1

\* C5: every call of add_row takes an index strictly greater than the index of
\* every earlier call, whether the earlier calls succeeded, failed or had
\* their rows deleted.
C5_IndicesIncrease ==
    \A i, j \in DOMAIN hist.assigned : i < j => hist.assigned[i] < hist.assigned[j]

\* a call of add_row is awaiting its fetch after an earlier call whose row is
\* no longer there (its fetch failed or the row was deleted)
C5_Witness ==
    /\ Len(hist.assigned) >= 2
    /\ dom = <<>>
    /\ Len(fetches) = 1 /\ fetches[1].index = hist.assigned[Len(hist.assigned)]
    /\ fetches[1].index > 0

\* C6: in unique mode the option of a code of which a row was added and not
\* deleted since is hidden, whatever text is typed into the selector; no click
\* and no key on the selector calls add_row for such a code; and after
\* delete_row for a row of the code its option is displayed again.
C6_ConsumedCodeUnavailable ==
    is_unique =>
        /\ hist.consumed \subseteq selector.hidden
        /\ ev.op = "add_row" => ~ev.again
        /\ ev.op = "delete_row" => ev.code \notin selector.hidden

\* a row of code 01 was added, then a text that matches its option was typed
\* into the selector: the dropdown is open and the option stays hidden
C6_Witness ==
    /\ is_unique
    /\ "01" \in hist.consumed
    /\ ev.op = "selector_input" /\ selector.open /\ selector.text = <<"1">>
    /\ IncludesText(LowerCase(OptionText("01")), LowerCase(selector.text))
    /\ "01" \in selector.hidden

(***************************************************************************)
(* Properties of row validation and serialization (SpecOneRow)             *)
(***************************************************************************)
\* the editable inputs of a row that are not blank, the readonly ones
EditableFilled(d, cells) == {k \in cells : ~d[k].readonly /\ ~IsBlankText(FieldText(d, k))}
ReadonlyFilled(d, cells) == {k \in cells : d[k].readonly /\ ~IsBlankText(FieldText(d, k))}

\* the names of the fields of a set of cells
NamesOf(d, cells) == {columns[d[k].col].name : k \in cells}

\* C7: row_cells_validate on a row without user data in its editable inputs
\* returns true and leaves no error marker on the row, whichever of its fields
\* are required.
C7_EmptyRowValid ==
    ev.op = "row_cells_validate" /\ ~RowHasUserData(dom, row_cells_get(dom, 0)) =>
        /\ ev.result = "valid"
        /\ \A k \in row_cells_get(dom, 0) : dom[k].err = "none"

\* a row validated with a required number field that holds a space and a
\* required enum field without a value
C7_Witness ==
    /\ ev.op = "row_cells_validate" /\ ev.result = "valid"
    /\ ~RowHasUserData(dom, row_cells_get(dom, 0))
    /\ dom[2].required /\ dom[2].value = <<" ">>
    /\ dom[4].required /\ dom[4].hidden = <<>>
    /\ \A k \in DOMAIN dom : dom[k].err = "none"

\* C10 as stated: table_serialize gives no entry for a row whose fields are all
\* whitespace, and for a row with exactly one field that is not blank an
\* object that holds the key of that field and no other.
C10_OnlyTheFilledKey ==
    ev.op = "table_serialize" =>
        LET cells  == row_cells_get(dom, 0)
            filled == EditableFilled(dom, cells)
        IN  /\ filled = {} => ev.data.items = <<>>
            /\ Cardinality(filled) = 1 =>
                  /\ Len(ev.data.items) = 1
                  /\ DOMAIN ev.data.items[1] = NamesOf(dom, filled)

\* C10, amended: table_serialize gives no entry for a row whose editable fields
\* are all whitespace; for a row with exactly one editable field that is not
\* blank it gives one object, whose keys are those of the readonly fields that
\* are not blank (the code) and that of the one field, the latter unless the
\* field is a number field whose text does not parse as a number.
C10_FilledKeyAndCode ==
    ev.op = "table_serialize" =>
        LET cells  == row_cells_get(dom, 0)
            filled == EditableFilled(dom, cells)
            parsed == {k \in filled : KindOf(dom, k) = "number" =>
                                        ~number_value_parse(dom[k].value).null}
        IN  /\ filled = {} => ev.data.items = <<>>
            /\ Cardinality(filled) = 1 =>
                  /\ Len(ev.data.items) = 1
                  /\ DOMAIN ev.data.items[1] =
                        NamesOf(dom, ReadonlyFilled(dom, cells)) \cup NamesOf(dom, parsed)

\* a row serialized with a text in its text field and every other editable
\* field blank: one object with the code and the text
C10_Witness ==
    /\ ev.op = "table_serialize"
    /\ EditableFilled(dom, row_cells_get(dom, 0)) = {3}
    /\ dom[2].value = <<" ">>
    /\ Len(ev.data.items) = 1
    /\ DOMAIN ev.data.items[1] = {"Wartosc_Kod", "Wartosc_Opis"}

(***************************************************************************)
(* Properties of the rendering of numbers (SpecFormat)                     *)
(***************************************************************************)
\* the mask of the number column as number_format_parse reads it
NumberFormat == number_format_parse(columns[2].format)

\* C11 as stated: the text number_format_value renders for a number parses
\* (number_value_parse) to a number that renders as the same text.
C11_RenderRoundTrip ==
    ev.op = "populate" =>
        /\ ~number_value_parse(dom[2].value).null
        /\ number_format_value(number_value_parse(dom[2].value).v, NumberFormat)
              = dom[2].value

(***************************************************************************)
(* Properties of multi-exclusive groups (SpecMulti)                        *)
(***************************************************************************)
\* the boxes of cell c that are checked
BoxChecked(c, o) == \E j \in DOMAIN c.value : c.value[j] = o

\* the exclusive box and a regular box are not both checked, and the hidden
\* value is that of the exclusive box when it is checked, else the values of
\* the checked regular boxes joined by commas
GroupConsistent(c) ==
    /\ ~(BoxChecked(c, "X") /\ (BoxChecked(c, "A") \/ BoxChecked(c, "B")))
    /\ c.hidden = CASE BoxChecked(c, "X") -> <<"X">>
                    [] BoxChecked(c, "A") /\ BoxChecked(c, "B") -> <<"A", ",", "B">>
                    [] BoxChecked(c, "A") -> <<"A">>
                    [] BoxChecked(c, "B") -> <<"B">>
                    [] OTHER -> <<>>

NormalizedNumberText(t, decimals) ==
    /\ \A i \in DOMAIN t : t[i] \in Digits \cup {"-", ","}
    /\ \A i \in DOMAIN t : t[i] = "-" => i = 1
    /\ decimals = 0 => \A i \in DOMAIN t : t[i] # ","
    /\ \A i, j \in DOMAIN t : t[i] = "," /\ t[j] = "," => i = j
    /\ \A i \in DOMAIN t : t[i] = "," => Len(t) - i <= decimals

\* C13: after an input event on a number input its text is normalized for
\* the decimals of its mask.
C13_InputNormalized ==
    ev.op = "input" => NormalizedNumberText(dom[2].value, NumberFormat.decimals)

\* -12a3 typed under the mask ###0 leaves -123
C13_Witness ==
    /\ ev.op = "input" /\ ev.typed = <<"-", "1", "2", "a", "3">>
    /\ columns[2].format = <<"#", "#", "#", "0">>
    /\ dom[2].value = <<"-", "1", "2", "3">>

(***************************************************************************)
(* Properties of the save endpoint (SpecStore)                             *)
(***************************************************************************)
\* a step in which the server handles a request
PostHandledStep == Len(server'.requests) < Len(server.requests)

\* C15: a handled POST that is answered 200 leaves its body as the blob of
\* its key whatever the blob was and whichever requests came before it, a
\* POST that fails leaves the blobs alone, every other blob is unchanged, and
\* no other step writes a blob: when all the POSTs are handled the blob of a
\* key is the body of the POST for it that the server executed last.
C15_LastWriteWins ==
    [][IF PostHandledStep
       THEN /\ server'.status = 200 => server'.store[ev'.key] = ev'.body
            /\ server'.status # 200 => server'.store[ev'.key] = server.store[ev'.key]
            /\ \A k \in StoreKeys \ {ev'.key} : server'.store[k] = server.store[k]
       ELSE server'.store = server.store]_vars

\* two clients have written the same key; every request is handled and the
\* blob is the body of the one handled last, which replaced another blob
C15_Witness ==
    /\ ev.op = "AnkietSubtablePost" /\ ev.result = "ok" /\ ev.again
    /\ server.requests = <<>> /\ server.sent = MaxPosts
    /\ server.store[ev.key] = ev.body

(***************************************************************************)
(* Properties of resolved pages (SpecResolve)                              *)
(***************************************************************************)
\* the Table Description of the last answer, the metadata and the persisted blob
Rows == server.table.Rows
Meta == server.meta
Dane == server.store[PageKey]

\* the last handler was AnkietSubtableGet, no lookup failed, and it rendered a
\* page of the layout
Resolved(type) ==
    /\ ev.op = "AnkietSubtableGet" /\ ev.result = "none"
    /\ server.status = 200 /\ tableType = type

\* the rows as the resolver builds them, before the populator
SkeletalRows == IF tableType = "VERTICAL_STATIC_UNIQUE" THEN VerticalRows(Meta)
                ELSE StaticRows(Meta)

MatchedObjects(code) ==
    IF tableType = "VERTICAL_STATIC_UNIQUE"
    THEN IF Dane.shape = "object" THEN {Dane.items[1]} ELSE {}
    ELSE IF Dane.shape = "array"
    THEN {Dane.items[i] : i \in {j \in DOMAIN Dane.items :
             /\ IsObject(Dane.items[j])
             /\ \E k \in DOMAIN Dane.items[j] :
                   /\ k \in {"Wartosc_Kod", "Inny_Kod"}
                   /\ Dane.items[j][k] = JsonString(CodeText(code))}}
    ELSE {}

\* C16: on the page of a static or vertical grid the populated rows are the
\* rows as built, cell for cell, but for the values of cells whose name is a
\* key of a matched object of the blob.
C16_PopulatorWritesMatchedKeys ==
    (Resolved("HORIZONTAL_STATIC_UNIQUE") \/ Resolved("VERTICAL_STATIC_UNIQUE")) =>
        /\ DOMAIN Rows = DOMAIN SkeletalRows
        /\ \A r \in DOMAIN Rows :
              /\ Rows[r].Code = SkeletalRows[r].Code
              /\ DOMAIN Rows[r].Cells = DOMAIN SkeletalRows[r].Cells
              /\ \A i \in DOMAIN Rows[r].Cells :
                    /\ [Rows[r].Cells[i] EXCEPT !.Value = <<>>]
                          = [SkeletalRows[r].Cells[i] EXCEPT !.Value = <<>>]
                    /\ Rows[r].Cells[i].Value # SkeletalRows[r].Cells[i].Value
                          => \E o \in MatchedObjects(Rows[r].Code) :
                                Rows[r].Cells[i].Name \in DOMAIN o

\* the blob has 3 for code 02 and a null for code 01: the number Cell of row
\* 02 holds 3 and that of row 01 is empty
C16_Witness ==
    /\ Resolved("HORIZONTAL_STATIC_UNIQUE")
    /\ Dane.shape = "array" /\ Len(Dane.items) = 2
    /\ Rows[2].Code = "02" /\ Rows[2].Cells[2].Value = <<"3">>
    /\ Rows[1].Code = "01" /\ Rows[1].Cells[2].Value = <<>>

\* C17 as stated: in every row the resolver renders (static horizontal rows,
\* row fragments, vertical rows) the required flag of a Cell that is not
\* blocked is not lower than that of its column.
C17_RequiredNotRelaxed ==
    (ev.op \in {"AnkietSubtableGet", "AnkietRowGet"} /\ server.status = 200) =>
        \A r \in DOMAIN Rows : \A i \in DOMAIN Rows[r].Cells :
            \/ Rows[r].Cells[i].Blocked
            \/ Rows[r].Cells[i].Required >= Meta.columns[Rows[r].Cells[i].Column].Required

\* the last handler was AnkietSubtableGet for a page of the layout, and no
\* lookup failed
Requested(type) ==
    ev.op = "AnkietSubtableGet" /\ ev.result = "none" /\ tableType = type

\* the persisted blob is not JSON of the form the layout's populator reads
MalformedBlob ==
    \/ Dane.shape = "malformed"
    \/ tableType = "HORIZONTAL_STATIC_UNIQUE"
          /\ \/ Dane.shape = "object"
             \/ Dane.shape = "array"
                   /\ \E i \in DOMAIN Dane.items :
                         "t" \in DOMAIN Dane.items[i] /\ Dane.items[i].t # "null"
    \/ tableType = "VERTICAL_STATIC_UNIQUE" /\ Dane.shape = "array"

\* C18 as stated: with an empty or malformed blob the page is rendered with
\* the rows as built and a warning is logged.
C18_BadBlobWarned ==
    ( /\ Requested("HORIZONTAL_STATIC_UNIQUE") \/ Requested("VERTICAL_STATIC_UNIQUE")
      /\ Dane.shape = "empty" \/ MalformedBlob )
        => server.status = 200 /\ Rows = SkeletalRows /\ server.log = "warn"

\* C18: with an empty or malformed blob the page is rendered with the rows as
\* built; a malformed blob is logged as a warning, an empty one is not logged.
C18_BadBlobNotFatal ==
    ( /\ Requested("HORIZONTAL_STATIC_UNIQUE") \/ Requested("VERTICAL_STATIC_UNIQUE")
      /\ Dane.shape = "empty" \/ MalformedBlob )
        => /\ server.status = 200
           /\ Rows = SkeletalRows
           /\ server.log = IF Dane.shape = "empty" THEN "none" ELSE "warn"

\* a static grid rendered, unpopulated, from a blob that is not JSON
C18_Witness ==
    /\ Requested("HORIZONTAL_STATIC_UNIQUE")
    /\ Dane.shape = "malformed"
    /\ server.status = 200 /\ Rows = StaticRows(Meta) /\ server.log = "warn"

\* C19 as stated: when a metadata lookup of the resolution has failed (the
\* subtable record, the columns, the code list, the block records of a static
\* grid, the query, a scan or the iteration of the system table), the Table
\* Description has no Columns and no Rows.
C19_FailureYieldsEmptyTable ==
    ( \/ /\ ev.op = "AnkietSubtableGet"
         /\ \/ ev.result \in {"subtable", "columns", "codes_query", "codes_scan"}
            \/ ev.result = "blocks" /\ tableType = "HORIZONTAL_STATIC_UNIQUE"
      \/ ev.op = "TableSysBTabeleGet" /\ ev.result \in {"query", "scan", "rows_err"} )
        => server.table.Columns = <<>> /\ Rows = <<>>

(***************************************************************************)
(* Properties of routing (SpecRoutes)                                      *)
(***************************************************************************)
\* the last request was a GET of the formularze page of the methodology
\* module, with or without the trailing slash
FormularzeRequested ==
    /\ ev.op = "GET"
    /\ ev.key \in {Formularze, Append(Formularze, "")}

\* C20: a GET of /app/{year}/bdgr/metodyka/formularze, with or without the
\* trailing slash, that is served by the handler Routes returns is answered
\* with status 200, and so not with a redirect
C20_FormularzeAnswered200 == FormularzeRequested => server.status = 200

(***************************************************************************)
(* Properties of the loader of persisted rows (SpecResolve)                *)
(***************************************************************************)
\* C21: whatever the data-initial attribute of a dynamic grid holds (nothing,
\* a text that is not JSON, JSON that is not an array, an array with members
\* of an unexpected shape), dynamic_table_load_existing skips what it cannot
\* use and its promise is never rejected
C21_LoaderNeverRejects == ~(ev.op = "load_row" /\ ev.result = "rejected")

(***************************************************************************)
(* Properties of the cooldown (SpecSave)                                   *)
(***************************************************************************)
\* the time since the last acknowledged save, when there was one
SinceLastSave == now - hist.saved_t

\* a call of table_save that reaches the cooldown test goes on to validation
\* when open holds; otherwise it is rejected with the warning that states the
\* seconds left, and sends no POST
CooldownGate(open) ==
    SaveAttemptStep /\ ~pending_save =>
        IF open
        THEN ev'.result \in {"invalid", "empty", "sent"}
        ELSE /\ ev'.result = "cooldown"
             /\ toast' = [type |-> "warning", msg |-> "cooldown",
                          n |-> CeilSeconds(SAVE_COOLDOWN_MS - SinceLastSave)]
             /\ posts' = posts
             /\ ~pending_save'

\* C22 as stated: a save attempt passes the cooldown test only when more than
\* SAVE_COOLDOWN_MS have passed since the last acknowledged save; otherwise it
\* is rejected with the toast of the remaining wait and without a POST. Failed
\* and locally rejected attempts are not acknowledged saves.
C22_PassesAfterMoreThanWindow ==
    [][CooldownGate(hist.saved_t = -1 \/ SinceLastSave > SAVE_COOLDOWN_MS)]_vars

\* C22, amended: a save attempt passes the cooldown test when at least
\* SAVE_COOLDOWN_MS have passed since the last acknowledged save, or when no
\* save was acknowledged yet; otherwise it is rejected with the toast of the
\* remaining wait and without a POST.
C22_PassesAfterWindow ==
    [][CooldownGate(hist.saved_t = -1 \/ SinceLastSave >= SAVE_COOLDOWN_MS)]_vars

\* a save attempt made exactly SAVE_COOLDOWN_MS after the last acknowledged
\* save was sent
C22_Witness ==
    /\ ev.op = "table_save" /\ ev.result = "sent"
    /\ hist.saved_t # -1 /\ SinceLastSave = SAVE_COOLDOWN_MS

(***************************************************************************)
(* Properties of the loader among add_row calls (SpecRows)                 *)
(***************************************************************************)
\* the fetch the loader awaited has been answered with the fragment of its row
LoaderRowFetched ==
    /\ loader.awaiting # -1
    /\ loader'.awaiting # loader.awaiting
    /\ ev'.op = "add_row_done" /\ ev'.result = "ok"

\* the document with the row of index idx appended and filled from record
WithLoadedRow(d, idx, record) ==
    With(d \o RowFragment(idx, record.Wartosc_Kod, [j \in 1..2 |-> j = 2]),
         LAMBDA d1 : populate_cells_from_data(d1, row_cells_get(d1, idx), record))

\* C23: whenever the fetch the loader awaited is answered, the values of the
\* record it was made for are written into the row that was fetched for it, and
\* into no other row, whatever add_row calls the user has made meanwhile
C23_RecordIntoItsRow ==
    [][LoaderRowFetched =>
          dom' = WithLoadedRow(dom, loader.awaiting, Head(loader.todo))]_vars

(***************************************************************************)
(* Properties of the save triggers (SpecMulti)                             *)
(***************************************************************************)
\* a handler that triggers a save has run: Enter in a number or text input, or
\* the change of a box of a multi-exclusive group
SaveTriggerStep == ev'.op \in {"keydown_enter", "change"} \/ SaveAttemptStep

\* the row of the grid fails validation
RowFails(d) == ~row_cells_validate(d, row_cells_get(d, 0)).valid

\* C24: when a save trigger finds that the row just edited fails validation,
\* no save is attempted (table_save is not called, no POST is sent) and the
\* trigger shows the toast that asks to complete the row
C24_InvalidRowStopsTrigger ==
    [][SaveTriggerStep /\ RowFails(dom') =>
          /\ posts' = posts /\ pending_save' = pending_save
          /\ ev'.result = "row_invalid"
          /\ toast' = Toast("error", "row_errors")]_vars

(***************************************************************************)
(* Properties of the severity of validation issues (SpecSave)              *)
(***************************************************************************)
\* no input of the grid displays an issue of severity 'error'
NoErrorShown(d) == \A k \in DOMAIN d : d[k].err # "error"

\* C25: issues displayed as 'warning' do not stop a save. When Enter is pressed
\* in a field while no save is pending, the cooldown is over and there is data
\* to send, and validation leaves no issue displayed as 'error', the POST is
\* sent
C25_WarningsDoNotBlock ==
    [][/\ ev'.op = "keydown_enter" \/ SaveAttemptStep
       /\ ~pending_save /\ ~CooldownActive(last_save_time, now)
       /\ NoErrorShown(dom')
       /\ ~PayloadHasNothing(Payload(tableType, dom'))
       => Len(posts') = Len(posts) + 1]_vars

(***************************************************************************)
(* Properties of the payload of a horizontal save (SpecSave)               *)
(***************************************************************************)
\* the names of the fields the user can edit
EditableNames == {columns[dom[k].col].name : k \in {j \in DOMAIN dom : ~dom[j].readonly}}

\* C26: every object of the array a horizontal save sends holds the value of
\* at least one field the user can edit, also when a row's only content is a
\* lone minus sign in an optional number field
C26_SentObjectsCarryUserData ==
    \A i \in DOMAIN posts :
        posts[i].body.shape = "array" =>
            \A j \in DOMAIN posts[i].body.items :
                DOMAIN posts[i].body.items[j] \cap EditableNames # {}

(***************************************************************************)
(* Properties of the option list of the row selector (SpecRows)            *)
(***************************************************************************)
\* ArrowDown or ArrowUp is pressed in the open option list
ArrowPressed ==
    /\ selector.open
    /\ ev'.op = "selector_keydown" /\ ev'.result \in {"ArrowDown", "ArrowUp"}

\* C27: after ArrowUp or ArrowDown in the open option list of the row selector
\* the index of the highlighted option lies between 0 and the number of
\* visible options less one, also when no option is visible and after an
\* option has been hidden by add_row in unique mode
C27_HighlightWithinOptions ==
    [][ArrowPressed =>
        /\ 0 <= selector'.index
        /\ selector'.index <= Len(VisibleOptions(selector'.hidden)) - 1]_vars

\* a row of the code is in the grid
RowOfCode(d, code) == \E k \in DOMAIN d : d[k].row_code = code

\* C28: after an input event on the row selector an option is visible exactly
\* when its lower-cased text "value - label" contains the lower-cased filter
\* and, in unique mode, no row of the grid holds its code; an option that was
\* filtered out and is not held by a row is visible again once the filter
\* matches it
C28_VisibleIffMatchesAndFree ==
    [][ev'.op = "selector_input" =>
        \A c \in Codes :
            c \notin selector'.hidden <=>
                /\ IncludesText(LowerCase(OptionText(c)), LowerCase(selector'.text))
                /\ is_unique => ~RowOfCode(dom', c)]_vars

(***************************************************************************)
(* Properties of the success marks of an acknowledged save (SpecSave)      *)
(***************************************************************************)
\* what a save would send for the row of a cell: its object in a horizontal
\* grid, the object of the whole table in a vertical one
SentFor(d, k) ==
    IF tableType = "VERTICAL_STATIC_UNIQUE" THEN table_serialize_vertical(d)
    ELSE ObjectOf(d, row_cells_get(d, d[k].row_index))

\* the response of POST i acknowledges it
Acknowledged(i) ==
    /\ ev'.op = "save_response" /\ ev'.result = "ok"
    /\ posts' = RemoveAt(posts, i)

\* C29: when a save is acknowledged, every row that receives the success mark
\* holds exactly the data of an object of the acknowledged payload: a row
\* edited while the POST was in flight is not shown as saved
C29_MarkedRowsWereSent ==
    [][\A i \in DOMAIN posts :
        Acknowledged(i) =>
            \A k \in ev'.marked :
                \E j \in DOMAIN posts[i].body.items :
                    posts[i].body.items[j] = SentFor(dom', k)]_vars

(***************************************************************************)
(* Properties of a failed fetch of a row fragment (SpecRows)               *)
(***************************************************************************)
\* a call of dynamic_table_add_row ends in its catch branch
AddRowFailed == ev'.op = "add_row_done" /\ ev'.result = "failed"

\* no index has been handed out twice and the counter is beyond all of them
IndicesConsumed(assigned, counter) ==
    /\ \A i, j \in DOMAIN assigned : assigned[i] = assigned[j] => i = j
    /\ \A i \in DOMAIN assigned : assigned[i] < counter

\* C30: when the fetch of add_row fails the grid is as before: no cell is
\* inserted and no option hidden, an error toast is shown and add_row reports
\* failure; the index the call had taken stays consumed
C30_FailedFetchLeavesGrid ==
    [][AddRowFailed =>
        /\ dom' = dom
        /\ selector' = selector
        /\ toast' = Toast("error", "add_row_error")
        /\ row_counter' >= row_counter
        /\ IndicesConsumed(hist'.assigned, row_counter')]_vars

\* a fetch has just failed in a unique grid that holds a row: the code asked
\* for is still offered and its index is below the counter
C30_Witness ==
    /\ ev.op = "add_row_done" /\ ev.result = "failed"
    /\ is_unique /\ dom # <<>>
    /\ ev.code \notin selector.hidden
    /\ ~RowOfCode(dom, ev.code)
    /\ row_counter > Cardinality({dom[k].row_index : k \in DOMAIN dom})

(***************************************************************************)
(* Properties of delete_row (SpecRows)                                     *)
(***************************************************************************)
\* the cells of the rows other than rowIndex, in document order
OtherRows(d, rowIndex) == SelectSeq(d, LAMBDA c : c.row_index # rowIndex)

\* the row of index rowIndex is deleted by this step
Deletes(rowIndex) ==
    /\ ev'.op = "delete_row"
    /\ rowIndex \in all_row_indices_get(dom)
    /\ rowIndex \in hist'.deleted \ hist.deleted

\* C31: delete_row sends nothing (no fragment is fetched, no save posted),
\* removes every cell of the row index and leaves the cells of all other rows
\* as they were, so that the payload is the former one without the object of
\* the row; no row of a deleted index is in the grid at any later time, so no
\* later payload has an entry for it
C31_DeleteRemovesOnlyItsRow ==
    /\ [][\A rowIndex \in all_row_indices_get(dom) :
            Deletes(rowIndex) =>
                /\ fetches' = fetches /\ posts' = posts /\ pending_save' = pending_save
                /\ row_cells_get(dom', rowIndex) = {}
                /\ dom' = OtherRows(dom, rowIndex)
                /\ table_serialize(dom') =
                      SerializeRows(dom, SortedSeq(all_row_indices_get(dom) \ {rowIndex}))]_vars
    /\ [](hist.deleted \cap all_row_indices_get(dom) = {})

\* a row has been deleted from a grid in which a row of the same code with a
\* value stays
C31_Witness ==
    /\ ev.op = "delete_row"
    /\ hist.deleted # {}
    /\ \E k \in DOMAIN dom :
          /\ dom[k].row_code = ev.code
          /\ ~dom[k].readonly /\ dom[k].value # <<>>

(***************************************************************************)
(* Rows deleted from a grid that is persisted (SpecDelete)                 *)
(*                                                                         *)
(* A dynamic grid whose rows the loader has filled from the stored blob;   *)
(* the blob is what the last save of these rows posted.  The user edits,   *)
(* deletes rows and saves; the server handles the POSTs.                   *)
(***************************************************************************)
\* the survey and subtable of the page
GridKey == <<"gr1", "A">>

\* the persisted records of the page
PersistedRecords ==
    {<<Record("01", Num(1250))>>, <<Record("01", Num(1250)), Record("02", Num(500))>>}

\* the grid once dynamic_table_load_existing has added and filled a row for
\* each record
RECURSIVE LoadedRows(_, _)
LoadedRows(records, n) ==
    IF n = 0 THEN <<>>
    ELSE WithLoadedRow(LoadedRows(records, n - 1), n - 1, records[n])

InitDelete ==
    /\ \E type \in {"HORIZONTAL_DYNAMIC_UNIQUE", "HORIZONTAL_DYNAMIC_DUPLICABLE"} :
        /\ tableType = type
        /\ is_dynamic = TRUE
        /\ is_unique = (type = "HORIZONTAL_DYNAMIC_UNIQUE")
    /\ columns = HorizontalColumns
    /\ \E records \in PersistedRecords :
        /\ dom = LoadedRows(records, Len(records))
        /\ row_counter = Len(records)
        /\ hist = [NoHistory EXCEPT
                     !.assigned = [i \in 1..Len(records) |-> i - 1],
                     !.consumed = {records[i].Wartosc_Kod : i \in 1..Len(records)}]
        /\ selector = [text |-> <<>>, open |-> FALSE, index |-> -1, lit |-> {},
                       hidden |-> IF is_unique
                                  THEN {records[i].Wartosc_Kod : i \in 1..Len(records)}
                                  ELSE {}]
    /\ pending_save = FALSE
    /\ last_save_time = 0
    /\ now = PageLoadTime
    /\ posts = <<>> /\ fetches = <<>>
    /\ toast = NoToast
    /\ loader = [todo |-> <<>>, awaiting |-> -1]
    /\ ev = NoEvent
    /\ server = [NoServer EXCEPT !.store = [k \in {GridKey} |-> Payload(tableType, dom)]]

\* the POST of a save is answered: AnkietSubtablePost has handled it, with
\* success or not, unless it never reached the server
SaveHandled(i, outcome) ==
    /\ SaveSettles(i, outcome)
    /\ server' = IF outcome = "network_error" THEN server
                 ELSE AnkietSubtablePost(server, [key |-> GridKey, body |-> posts[i].body],
                                         IF outcome = "ok" THEN "ok" ELSE "exec_error")

NextDelete ==
    \/ Tick
    \/ \E k \in DOMAIN dom : \E typed \in NumberTexts : InputNumber(k, typed)
    \/ \E k \in DOMAIN dom : KeydownEnter(k)
    \/ \E k \in DOMAIN dom : DeleteRow(k)
    \/ \E i \in DOMAIN posts : \E outcome \in SaveOutcomes : SaveHandled(i, outcome)

SpecDelete == InitDelete /\ [][NextDelete]_vars

\* the stored blob is what a save of the grid as it is would send
InLine == server.store[GridKey] = Payload(tableType, dom)

\* table_save, called once no save is pending and the cooldown is over, sends
\* the payload of the grid
SaveWouldSend(d) ==
    table_save(tableType, d, FALSE, last_save_time,
               last_save_time + SAVE_COOLDOWN_MS).result = "sent"

\* C32: once rows have been deleted from a dynamic grid whose remaining rows
\* are valid, either the stored blob is in line with the grid or a save sends
\* the payload of the grid; this also holds when the grid is empty
C32_SaveBringsStoreInLine ==
    (hist.deleted # {} /\ posts = <<>> /\ table_validate_all(dom).valid) =>
        InLine \/ SaveWouldSend(dom)

(***************************************************************************)
(* An enum field: typing, filtering and selection (SpecEnum)               *)
(*                                                                         *)
(* A static row of code 01 with an optional number and an enum field.  The *)
(* grid has no row selector; selector holds the option list of the enum    *)
(* field: whether it is open, the options the filter has hidden and the    *)
(* index state.enum_selected_index has for the field.                      *)
(***************************************************************************)
EnumColumns == <<ColKod, ColLiczba, ColTyp>>

\* the catalogue of the enum field: the data-value of its options in document
\* order, and their data-label
EnumOptions == << <<"x">>, <<"y">> >>
EnumLabel(option) == IF option = <<"x">> THEN <<"a">> ELSE <<"b">>

\* the text "value - label" of an option
EnumOptionText(option) == option \o <<" ", "-", " ">> \o EnumLabel(option)

\* enum_dropdown_filter: the options hidden for the text of the input
enum_dropdown_filter(query) ==
    {EnumOptions[i] : i \in {j \in DOMAIN EnumOptions :
        ~IncludesText(LowerCase(EnumOptionText(EnumOptions[j])), LowerCase(query))}}

\* the options of the field that are not hidden, in document order
EnumVisible(hidden) == SelectSeq(EnumOptions, LAMBDA o : o \notin hidden)

\* an input event that commits the typed text as the value of the field
EnumTyped_committed(cell, typed) == [cell EXCEPT !.value = typed, !.hidden = typed]

\* the input of the field after an input event: the browser has put the typed
\* text into the visible input; enum_dropdown_filter writes to no input
EnumTyped(cell, typed) == [cell EXCEPT !.value = typed]

\* table_enum_select
table_enum_select(cell, option) ==
    input_clear_error([cell EXCEPT !.value = EnumOptionText(option), !.hidden = option])

\* enum_select_init: the visible input shows the first option whose text
\* includes the hidden value
enum_select_init(cell) ==
    LET found == {i \in DOMAIN EnumOptions :
                    IncludesText(EnumOptionText(EnumOptions[i]), cell.hidden)}
    IN  IF found = {} THEN cell
        ELSE [cell EXCEPT !.value =
                EnumOptionText(EnumOptions[CHOOSE i \in found : \A j \in found : i <= j])]

InitEnum ==
    /\ TableInit("HORIZONTAL_STATIC_UNIQUE")
    /\ columns = EnumColumns
    /\ \E req \in BOOLEAN : \E chosen \in {<<>>, <<"y">>} :
          dom = << Cell(0, "01", 1, CodeText("01"), TRUE, FALSE),
                   Cell(0, "01", 2, <<>>, FALSE, FALSE),
                   enum_select_init([Cell(0, "01", 3, <<>>, FALSE, req) EXCEPT
                                        !.hidden = chosen]) >>
    /\ loader = [todo |-> <<>>, awaiting |-> -1]
    /\ selector = [text |-> <<>>, open |-> FALSE, hidden |-> {}, index |-> -1, lit |-> {}]
    /\ ev = NoEvent
    /\ hist = NoHistory

enum_frame == <<table_vars, server, last_save_time, now, row_counter, fetches, loader>>

\* table_handle_focus, and table_handle_click on the input of the field
EnumFocus(k) ==
    /\ KindOf(dom, k) = "enum"
    /\ selector' = [selector EXCEPT !.open = TRUE, !.index = -1]
    /\ ev' = Event("enum_focus", "")
    /\ UNCHANGED <<enum_frame, dom, pending_save, posts, toast, hist>>

\* input_event_route: an input event on the visible input of the field
EnumInput(k, typed) ==
    /\ KindOf(dom, k) = "enum"
    /\ dom' = [dom EXCEPT ![k] = EnumTyped(dom[k], typed)]
    /\ selector' = [selector EXCEPT !.open = TRUE, !.index = -1, !.lit = {},
                                    !.hidden = enum_dropdown_filter(typed)]
    /\ ev' = Event("enum_input", "")
    /\ UNCHANGED <<enum_frame, pending_save, posts, toast, hist>>

\* an option is committed: table_enum_select, then the row is validated and,
\* if valid, saved
EnumCommit(k, option) ==
    /\ selector' = [selector EXCEPT !.open = FALSE]
    /\ \E d1 \in {[dom EXCEPT ![k] = table_enum_select(dom[k], option)]} :
       \E r \in {row_cells_validate(d1, row_cells_get(d1, d1[k].row_index))} :
           IF r.valid
           THEN SaveAttempt(r.dom)
           ELSE /\ dom' = r.dom
                /\ toast' = Toast("error", "row_errors")
                /\ ev' = Event("enum_select", "row_invalid")
                /\ UNCHANGED <<pending_save, posts, hist>>
    /\ UNCHANGED enum_frame

\* table_handle_keydown on the visible input of the field
EnumKeydown(k, key) ==
    /\ KindOf(dom, k) = "enum"
    /\ LET options == EnumVisible(selector.hidden)
           index   == selector.index
       IN  IF key = "Escape"
           THEN /\ selector' = [selector EXCEPT !.open = FALSE]
                /\ ev' = Event("enum_keydown", key)
                /\ UNCHANGED <<enum_frame, dom, pending_save, posts, toast, hist>>
           ELSE IF key = "ArrowDown" /\ ~selector.open
           THEN /\ selector' = [selector EXCEPT !.open = TRUE]
                /\ ev' = Event("enum_keydown", key)
                /\ UNCHANGED <<enum_frame, dom, pending_save, posts, toast, hist>>
           ELSE IF ~selector.open
           THEN /\ ev' = Event("enum_keydown", "closed")
                /\ UNCHANGED <<enum_frame, dom, selector, pending_save, posts, toast, hist>>
           ELSE IF key = "ArrowDown"
           THEN /\ selector' = [selector EXCEPT
                                  !.index = Min(index + 1, Len(options) - 1),
                                  !.lit = Highlight(@, options, Min(index + 1, Len(options) - 1))]
                /\ ev' = Event("enum_keydown", key)
                /\ UNCHANGED <<enum_frame, dom, pending_save, posts, toast, hist>>
           ELSE IF key = "ArrowUp"
           THEN /\ selector' = [selector EXCEPT
                                  !.index = Max(index - 1, 0),
                                  !.lit = Highlight(@, options, Max(index - 1, 0))]
                /\ ev' = Event("enum_keydown", key)
                /\ UNCHANGED <<enum_frame, dom, pending_save, posts, toast, hist>>
           ELSE IF index >= 0 /\ index + 1 <= Len(options)
           THEN EnumCommit(k, options[index + 1])
           ELSE /\ ev' = Event("enum_keydown", "nothing")
                /\ UNCHANGED <<enum_frame, dom, selector, pending_save, posts, toast, hist>>

\* table_handle_click on an option of the field: only an option that is
\* displayed can be clicked
EnumClick(k, option) ==
    /\ KindOf(dom, k) = "enum"
    /\ selector.open
    /\ option \notin selector.hidden
    /\ EnumCommit(k, option)

\* document_click_outside_init: a click outside the field closes its list
ClickOutside ==
    /\ selector.open
    /\ selector' = [selector EXCEPT !.open = FALSE]
    /\ ev' = Event("click_outside", "")
    /\ UNCHANGED <<enum_frame, dom, pending_save, posts, toast, hist>>

\* texts typed into the visible input of the field
EnumTexts == {<<>>, <<"x">>, <<"z">>, <<"B">>}

NextEnum ==
    \/ \E k \in DOMAIN dom : \E typed \in {<<>>, <<"5">>} : InputNumber(k, typed)
    \/ \E k \in DOMAIN dom : EnumFocus(k)
    \/ \E k \in DOMAIN dom : \E typed \in EnumTexts : EnumInput(k, typed)
    \/ \E k \in DOMAIN dom : \E key \in SelectorKeys : EnumKeydown(k, key)
    \/ \E k \in DOMAIN dom : \E i \in DOMAIN EnumOptions : EnumClick(k, EnumOptions[i])
    \/ \E k \in DOMAIN dom : Blur(k)
    \/ ClickOutside
    \/ \E i \in DOMAIN posts : \E outcome \in SaveOutcomes : SaveResponse(i, outcome)

SpecEnum == InitEnum /\ [][NextEnum]_vars

(***************************************************************************)
(* Properties of the hidden value of an enum field (SpecEnum)              *)
(***************************************************************************)
EnumCells(d) == {k \in DOMAIN d : KindOf(d, k) = "enum"}

\* the values of the options of the catalogue
Catalogue == {EnumOptions[i] : i \in DOMAIN EnumOptions}

\* a required enum field without a hidden value is rejected by its validator,
\* and by the validation of its row when the row has data
EmptyRequiredFails(d, k) ==
    (d[k].required /\ d[k].hidden = <<>>) =>
        /\ validate_enum_required(d[k]) # ""
        /\ row_cells_has_data(d, row_cells_get(d, d[k].row_index)) =>
              ~row_cells_validate(d, row_cells_get(d, d[k].row_index)).valid

\* C33: after any typing, filtering and selection in an enum field its hidden
\* value is empty or the value of an option of the catalogue, and a required
\* field whose hidden value is empty fails validation whatever its visible
\* text; an input event never changes the hidden value
C33_HiddenFromCatalogue ==
    /\ [](\A k \in EnumCells(dom) :
            /\ dom[k].hidden \in {<<>>} \cup Catalogue
            /\ EmptyRequiredFails(dom, k))
    /\ [][ev'.op = "enum_input" =>
            \A k \in EnumCells(dom) : dom'[k].hidden = dom[k].hidden]_vars

\* the text of a catalogue value has just been typed into a required field of
\* a row with data, and nothing is committed
C33_Witness ==
    /\ ev.op = "enum_input"
    /\ \E k \in EnumCells(dom) :
          /\ dom[k].value \in Catalogue /\ dom[k].hidden = <<>> /\ dom[k].required
          /\ row_cells_has_data(dom, row_cells_get(dom, dom[k].row_index))

\* C34: the hidden value an enum field adds to the payload is the value of
\* the option its visible input shows: no committed value stays behind when
\* the user types into the visible input after a selection
C34_SerializedValueIsShown ==
    \A k \in EnumCells(dom) :
        CellIsSerialized(dom, k) => dom[k].value = EnumOptionText(dom[k].hidden)

(***************************************************************************)
(* Typing into the fields of a static grid and leaving them (SpecEdit)     *)
(***************************************************************************)
NextEdit ==
    \/ \E k \in DOMAIN dom : \E typed \in NumberTexts : InputNumber(k, typed)
    \/ \E k \in DOMAIN dom : \E typed \in StringTexts : InputString(k, typed)
    \/ \E k \in DOMAIN dom : Blur(k)
    \/ \E k \in DOMAIN dom : KeydownEnter(k)
    \/ \E i \in DOMAIN posts : \E outcome \in SaveOutcomes : SaveResponse(i, outcome)

SpecEdit == InitStatic /\ [][NextEdit]_vars

\* an input event or a blur on the input of cell k is handled
TypingOrBlur(k) ==
    \/ \E typed \in NumberTexts : InputNumber(k, typed)
    \/ \E typed \in StringTexts : InputString(k, typed)
    \/ Blur(k)

\* d1 differs from d in the input of cell k and the error display of its row
OnlyFieldAndRowErrors(d, d1, k) ==
    /\ DOMAIN d1 = DOMAIN d
    /\ \A j \in DOMAIN d :
          IF d[j].row_index # d[k].row_index THEN d1[j] = d[j]
          ELSE j # k => d1[j] = [d[j] EXCEPT !.err = d1[j].err]

\* C35: an input event or a blur sends nothing and changes only the edited
\* field and the error display of its row: the cells of the other rows,
\* pending_save, last_save_time and row_counter are as before
C35_TypingStaysInItsRow ==
    [][\A k \in DOMAIN dom :
        TypingOrBlur(k) =>
            /\ posts' = posts /\ fetches' = fetches
            /\ pending_save' = pending_save
            /\ last_save_time' = last_save_time
            /\ row_counter' = row_counter
            /\ OnlyFieldAndRowErrors(dom, dom', k)]_vars

\* a field has lost the focus and was reformatted while a save is pending and
\* another row shows an error
C35_Witness ==
    /\ ev.op = "blur" /\ ev.result = "changed"
    /\ pending_save
    /\ \E j \in DOMAIN dom : dom[j].err # "none"

(***************************************************************************)
(* Properties of Enter and Escape in the row selector (SpecRows)           *)
(***************************************************************************)
\* Enter is pressed in the open option list of the row selector
EnterInList ==
    /\ selector.open
    /\ \/ ev'.op = "add_row" /\ ev'.result = "keyboard"
       \/ ev'.op = "selector_keydown" /\ ev'.result = "nothing"

\* the displayed options that are highlighted
VisibleLit == {c \in selector.lit : c \notin selector.hidden}

\* what a click on the option of the code does: add_row is started for it
StartsAddRow(code) ==
    /\ fetches' = Append(fetches, Fetch(AddRowIndex(row_counter), code, "user"))
    /\ row_counter' = AddRowCounter(row_counter)
    /\ dom' = dom

\* C36: in the row selector Enter with a highlighted displayed option starts
\* add_row for the code of that option, as a click on it does; Enter with no
\* highlighted option adds nothing; Escape hides the list and leaves the rows,
\* the row counter and the hidden options as they are
C36_EnterCommitsHighlighted ==
    [][/\ (EnterInList /\ VisibleLit # {}) => \E c \in VisibleLit : StartsAddRow(c)
       /\ (EnterInList /\ VisibleLit = {}) =>
              fetches' = fetches /\ row_counter' = row_counter /\ dom' = dom
       /\ (ev'.op = "selector_keydown" /\ ev'.result = "Escape") =>
              /\ ~selector'.open
              /\ dom' = dom /\ row_counter' = row_counter /\ fetches' = fetches
              /\ selector'.hidden = selector.hidden]_vars

(***************************************************************************)
(* Every POST of a save settles (SpecSettle)                               *)
(*                                                                         *)
(* The behaviours of SpecSave in which the network answers every POST,     *)
(* with a response or with a failure.                                      *)
(***************************************************************************)
Settles == \E i \in DOMAIN posts : \E outcome \in SaveOutcomes : SaveResponse(i, outcome)

SpecSettle == SpecSave /\ WF_vars(Settles)

\* C37: a save that has reached its network call returns the grid to Idle:
\* pending_save is set only while a POST is outstanding, it is false again
\* once the POST has settled, whatever the outcome, and so it is false again
\* eventually; no save attempt is rejected as re-entrant when no POST is
\* outstanding
C37_SaveReturnsToIdle ==
    /\ [](pending_save => posts # <<>>)
    /\ [][ev'.op = "save_response" /\ posts' # posts => ~pending_save']_vars
    /\ [][(SaveAttemptStep /\ ev'.result = "pending") => posts # <<>>]_vars
    /\ (pending_save ~> ~pending_save)

\* a POST has failed on the network and the grid is Idle again
C37_Witness ==
    /\ ev.op = "save_response" /\ ev.result = "network_error"
    /\ ~pending_save /\ posts = <<>>

(***************************************************************************)
(* Text fields with a mask (SpecPattern)                                   *)
(*                                                                         *)
(* A static row of code 01 with a text field whose mask is dash-grouped or *)
(* the untyped "$".  The field holds any of the texts below, as persisted  *)
(* data can put them there; the user types into it and the row is          *)
(* validated.                                                              *)
(***************************************************************************)
DashMask == <<"#", "#", "-", "#", "#", "-", "#", "#", "-", "#", "#">>

PatternChars == {"1", "2", "-", "a"}

PatternTexts ==
    UNION {[1..n -> PatternChars] : n \in 0..MaxTyped}
      \cup { <<"1", "2", "-", "1", "2">>, <<"1", "2", "1", "2", "1">>,
             <<"1", "2", "-", "1", "2", "-", "1", "2">>,
             <<"1", "2", "-", "1", "2", "-", "1", "2", "-", "1", "2">>,
             <<"1", "2", "-", "1", "2", "-", "1", "2", "-", "1", "2", "-", "1", "2">>,
             <<"1", "2", "1", "2", "1", "2", "1", "2">>,
             <<"1", "a", "2", "1", "2", "1", "2", "1", "2", "1", "2">>,
             <<"1", "2", "-", "1", "2", "-", "1", "2", "-", "1">>,
             <<"1", "2", "-", "1", "2", "-", "1", "2", "-", "1", "a">> }

InitPattern ==
    /\ TableInit("HORIZONTAL_STATIC_UNIQUE")
    /\ \E mask \in {DashMask, <<"$">>} : columns = <<ColKod, [ColOpis EXCEPT !.format = mask]>>
    /\ \E text \in PatternTexts : \E req \in BOOLEAN :
          dom = << Cell(0, "01", 1, CodeText("01"), TRUE, FALSE),
                   Cell(0, "01", 2, text, FALSE, req) >>
    /\ loader = [todo |-> <<>>, awaiting |-> -1]
    /\ selector = [text |-> <<>>, open |-> FALSE, hidden |-> {}, index |-> -1, lit |-> {}]
    /\ ev = NoEvent
    /\ hist = NoHistory

\* input_event_route: an input event on a text input that holds typed
TypeString(k, typed) ==
    /\ KindOf(dom, k) = "string" /\ ~dom[k].readonly
    /\ dom' = [dom EXCEPT ![k] = table_handle_input_string(dom[k], typed)]
    /\ toast' = NoToast
    /\ ev' = [Event("type_string", "") EXCEPT !.typed = typed]
    /\ UNCHANGED <<table_vars, server, pending_save, last_save_time, now, posts,
                   dynamic_vars, hist>>

NextPattern ==
    \/ \E k \in DOMAIN dom : \E typed \in PatternTexts : TypeString(k, typed)
    \/ RowValidate

SpecPattern == InitPattern /\ [][NextPattern]_vars

\* the digits of a text, in order
DigitsOf(text) == SelectSeq(text, LAMBDA c : c \in Digits)

\* text is n digits in groups of two, the groups separated by dashes
IsGrouped(text, n) ==
    /\ Len(text) = IF n = 0 THEN 0 ELSE n + (n - 1) \div 2
    /\ \A i \in DOMAIN text : (text[i] = "-") = (i % 3 = 0)
    /\ Len(DigitsOf(text)) = n

\* one of the shapes d, dd, dd-dd, dd-dd-dd, dd-dd-dd-dd
IsShape(text) == \E n \in {1, 2, 4, 6, 8} : IsGrouped(text, n)

\* C38: in a text field with a dash-grouped mask every input event replaces
\* the text by its digits, at most the first 8, grouped in twos with dashes,
\* and normalizing the result again changes nothing; the pattern check accepts
\* exactly the empty text and the shapes d, dd, dd-dd, dd-dd-dd, dd-dd-dd-dd;
\* with the mask "$" the text is left as typed and no pattern is checked
C38_DashMaskNormalizes ==
    /\ [][ev'.op = "type_string" =>
            \A k \in {j \in DOMAIN dom : KindOf(dom, j) = "string" /\ ~dom[j].readonly} :
                IF columns[dom[k].col].format = <<"$">>
                THEN dom'[k] = [dom[k] EXCEPT !.value = ev'.typed]
                ELSE /\ DigitsOf(dom'[k].value) =
                           SubSeq(DigitsOf(ev'.typed), 1, Min(8, Len(DigitsOf(ev'.typed))))
                     /\ IsGrouped(dom'[k].value, Min(8, Len(DigitsOf(ev'.typed))))
                     /\ string_format_pattern(dom'[k].value) = dom'[k].value]_vars
    /\ [](\A k \in DOMAIN dom :
            KindOf(dom, k) = "string" /\ ~dom[k].readonly =>
                IF columns[dom[k].col].format = <<"$">>
                THEN /\ validate_string_pattern(dom[k].value, <<"$">>)
                     /\ input_format_error_get(columns[dom[k].col], dom[k]) = ""
                ELSE /\ validate_string_pattern(dom[k].value, DashMask)
                            = (dom[k].value = <<>> \/ IsShape(dom[k].value))
                     /\ (input_format_error_get(columns[dom[k].col], dom[k]) = "")
                            = (dom[k].value = <<>> \/ IsShape(dom[k].value)))

\* an input event has cut a text of more than 8 digits in a field with the
\* dash-grouped mask
C38_Witness ==
    /\ ev.op = "type_string"
    /\ Len(DigitsOf(ev.typed)) > 8
    /\ columns[2].format = DashMask
    /\ dom[2].value = <<"1", "2", "-", "1", "2", "-", "1", "2", "-", "1", "2">>
    /\ dom[2].err = "none"

(***************************************************************************)
(* The cells of a horizontal row (SpecCells)                               *)
(*                                                                         *)
(* The static horizontal table and the row fragment of the dynamic ones    *)
(* over column lists that hold, next to the columns of scenario A, a       *)
(* column whose name has _Kod inside it and a _Wyszczegolnienie column.    *)
(***************************************************************************)
CellColumnNames ==
    { <<"Wartosc_Kod", "Wartosc_Liczba">>,
      <<"Wartosc_Kod", "Wartosc_Wyszczegolnienie", "Wartosc_Liczba">>,
      <<"Wartosc_Kod", "Wartosc_Kod_Nazwa", "Wartosc_Liczba">>,
      <<"Wartosc_Liczba", "Inny_Kod">> }

InitCells ==
    /\ \E type \in {"HORIZONTAL_STATIC_UNIQUE", "HORIZONTAL_DYNAMIC_UNIQUE",
                    "HORIZONTAL_DYNAMIC_DUPLICABLE"},
          names \in CellColumnNames, required \in {0, 1}, dane \in PersistedBlobs :
       \E blocks \in SUBSET {<<"Wartosc_Liczba", "01">>} :
          /\ tableType = type
          /\ columns = HorizontalColumns
          /\ server = [NoServer EXCEPT
                !.store = [k \in {PageKey} |-> dane],
                !.table = NoTable,
                !.meta = [type |-> type,
                          columns |-> [i \in DOMAIN names |->
                                         TableColumn(names[i],
                                            IF names[i] = "Wartosc_Liczba"
                                            THEN required ELSE 0)],
                          codes |-> StaticCodes,
                          blocks |-> blocks]]
    /\ is_dynamic = (tableType # "HORIZONTAL_STATIC_UNIQUE")
    /\ is_unique = (tableType # "HORIZONTAL_DYNAMIC_DUPLICABLE")
    /\ dom = <<>>
    /\ row_counter = 0 /\ pending_save = FALSE /\ last_save_time = 0
    /\ now = PageLoadTime
    /\ posts = <<>> /\ fetches = <<>>
    /\ toast = NoToast
    /\ loader = [todo |-> <<>>, awaiting |-> -1]
    /\ selector = [text |-> <<>>, open |-> FALSE, hidden |-> {}, index |-> -1, lit |-> {}]
    /\ ev = NoEvent
    /\ hist = NoHistory

NextCells ==
    \/ \E fail \in SubtableLookups \cup {"none"} : SubtableGet(fail)
    \/ \E code \in Codes, index \in 0..1, fail \in RowLookups \cup {"none"} :
          RowGet(code, index, fail)

SpecCells == InitCells /\ [][NextCells]_vars

\* the rows built cell by cell that the last request answered with: those of a
\* row fragment, or of the static horizontal table
BuiltRows ==
    IF server.status = 200
          /\ \/ ev.op = "AnkietRowGet"
             \/ ev.op = "AnkietSubtableGet" /\ server.meta.type = "HORIZONTAL_STATIC_UNIQUE"
    THEN {server.table.Rows[r] : r \in DOMAIN server.table.Rows}
    ELSE {}

\* whether the values of the row are as the row was built, no persisted object
\* having been copied into it
AsBuilt(row) ==
    \/ ev.op = "AnkietRowGet"
    \/ server.store[PageKey].shape # "array"
    \/ \A l \in Lookups(server.store[PageKey].items) : CodeText(row.Code) \notin DOMAIN l

\* C39: a row of the static horizontal table and of a row fragment has one
\* cell per column, in the order of the columns; a cell is not editable exactly
\* when the name of its column ends in _Kod, and such a cell is built holding
\* the code of its row; every other cell is editable
C39_CodeCellsBySuffix ==
    \A row \in BuiltRows :
        /\ Len(row.Cells) = Len(server.meta.columns)
        /\ \A i \in DOMAIN row.Cells :
              /\ row.Cells[i].Name = server.meta.columns[i].Name
              /\ row.Cells[i].Column = i
              /\ row.Cells[i].Editable = (IF HasSuffixKod(row.Cells[i].Name) THEN 0 ELSE 1)
              /\ AsBuilt(row) =>
                    (row.Cells[i].Value = CodeText(row.Code)
                        <=> HasSuffixKod(row.Cells[i].Name))

(***************************************************************************)
(* Runs of the array-form populator (SpecResolve)                          *)
(***************************************************************************)
\* the outcomes PopulateCellsFromArray can leave on the rows of the static
\* horizontal table for the persisted payload
PopulatorRuns == PopulateCellsFromArray(StaticRows(server.meta), server.store[PageKey])

\* C40: the array-form populator is deterministic: the rows the static
\* horizontal table was answered with are the rows every run of the populator
\* leaves for the same rows and the same persisted payload
C40_PopulatorIsDeterministic ==
    (ev.op = "AnkietSubtableGet" /\ ev.result = "none"
        /\ server.meta.type = "HORIZONTAL_STATIC_UNIQUE" /\ server.status = 200)
    => \A p \in PopulatorRuns : p.rows = server.table.Rows

====
